---- MODULE Spec2Model ----
(***************************************************************************)
(* The in-memory session state machine of the Excel mock interviewer.      *)
(*                                                                         *)
(* Two classes keep a Map<string, Session> and move a session through its  *)
(* questions: SessionManager (backend/src/services/SessionManager.ts), the *)
(* one the HTTP routes use, and SessionLifecycleManager                    *)
(* (backend/src/services/SessionLifecycleManager.ts).  A behaviour of Spec *)
(* instantiates one of them (manager) and calls its public methods in any  *)
(* order; the routes of backend/src/routes/api.ts drive SessionManager     *)
(* ("api"), and the earlier SessionManager kept at the end of              *)
(* backend/src/data/questions.ts is the fourth ("LegacySessionManager").   *)
(*                                                                         *)
(* Left out of a Session, because no transition reads them: userId, the    *)
(* text and submittedAt of an Answer, and of a Question everything but its *)
(* id.                                                                     *)
(*                                                                         *)
(* The Map holds object references, and a call suspended at an await keeps *)
(* the reference it looked up.  The model names a session by its id, so it *)
(* does not draw an id that a suspended call still works on (the one case  *)
(* in which the reference and the id would come apart).                    *)
(***************************************************************************)
EXTENDS Integers, Sequences, FiniteSets, TLC

VARIABLES
    manager,    \* the class that was instantiated
    sessions,   \* private sessions = new Map<string, Session>()
    now,        \* the clock read by new Date()
    result,     \* how the last call ended: "ok", "null" or the Error message
    callbacks,  \* the EventCallbacks the last call fired, in order
    pending,    \* the async calls suspended at an await, by slot
    evaluator,  \* one call of llmAdapter.evaluateAnswer: its inputs and how far it is
    generator,  \* one call of llmAdapter.generateQuestions: its inputs and how far it is
    report,     \* the counts and questionScores of the report the last call returned, if it returned one
    stt,        \* the front-end STTService, its providers and the browser's recognition
    app         \* the front-end App: the reducer's state, AnswerInput's state, the calls in flight

vars == <<manager, sessions, now, result, callbacks, pending, evaluator, generator, report,
          stt, app>>

----------------------------------------------------------------------------
(* Bounds *)

MaxQuestions == 2       \* longest question list a generator call returns
MaxAnswers == 2         \* addAnswer and addEvaluation are not called on a longer list
MaxTime == 1            \* the clock stops here
RandomSteps == 1        \* Math.random() is sampled at RandomSteps + 1 points
MaxPending == 2         \* async calls in flight at once

\* Values of `session_${Date.now()}_${Math.random()...}`, in a fixed order
SessionIdOrder == <<"s1", "s2">>
SessionIds == {SessionIdOrder[i] : i \in 1 .. Len(SessionIdOrder)}
OneId == {"s1"}                     \* the id that Spec draws every time
QuestionIds == 1 .. MaxQuestions    \* values of Question.id
Slots == 1 .. MaxPending

Undefined == -1         \* an optional field that is not set (undefined / null)
Idle == [pc |-> "idle"] \* a slot with no call in flight
Off == [pc |-> "off"]
NoReport ==             \* the last call returned no report
    [questionScores |-> <<>>, questionsAnswered |-> Undefined, totalQuestions |-> Undefined]

----------------------------------------------------------------------------
(* llmAdapter, at its boundary *)

\* What generateQuestions can return.  The fallback templates give distinct
\* ids (`fallback_${difficulty}_${index}_...`); the oracle path keeps whatever
\* ids the oracle wrote (q.id || ...), so ids may repeat; a parse failure
\* gives the empty list.
GeneratedQuestions ==
    {<<>>}
    \cup {[i \in 1 .. n |-> i] : n \in 1 .. MaxQuestions}
    \cup {[i \in 1 .. n |-> 1] : n \in 2 .. MaxQuestions}

\* The scores evaluateAnswer returns, one per band the callers tell apart
\* (< 50, 50..59, 60..69, >= 70).
EvaluationScores == {40, 50, 60, 70, 100}

\* The EvaluationResults of RubricFirstEvaluator.evaluateAnswer: pass is
\* true on the deterministic path (score >= 85) and finalScore >= 60 on the
\* other.
Evaluations == {[score |-> s, pass |-> s >= 60] : s \in EvaluationScores}

\* Math.round(Math.random() * 40 + 60), sampled.
PlaceholderScores == {60 + (40 * k) \div RandomSteps : k \in 0 .. RandomSteps}

----------------------------------------------------------------------------
(* Helpers *)

RECURSIVE SumSeq(_)
SumSeq(s) == IF s = <<>> THEN 0 ELSE Head(s) + SumSeq(Tail(s))

\* session.answers.filter(a => a.questionId === questionId).length
CountAnswers(answers, questionId) ==
    Cardinality({i \in 1 .. Len(answers) : answers[i].questionId = questionId})

\* session.questions[session.currentQuestionIndex]: the id, or Undefined
\* when the index is outside the list
CurrentQuestion(session) ==
    IF session.currentQuestionIndex + 1 \in 1 .. Len(session.questions)
    THEN session.questions[session.currentQuestionIndex + 1]
    ELSE Undefined

\* this.sessions.get(sessionId) finds a session
Has(sessionId) == sessionId \in DOMAIN sessions

\* A Map or Record after set(key, value)
MapSet(map, key, value) ==
    [k \in DOMAIN map \cup {key} |-> IF k = key THEN value ELSE map[k]]

\* The Map after delete over a set of keys
MapDelete(map, keys) == [k \in DOMAIN map \ keys |-> map[k]]

\* The sessions the suspended calls work on
InFlight == {pending[k].sessionId : k \in {j \in Slots : pending[j].pc # "idle"}}

\* A slot that is free
FreeSlot == CHOOSE k \in Slots : pending[k].pc = "idle"

\* The slots tell the calls in flight apart and nothing more, so they are
\* kept in one order: by position in the code, then by session, then by
\* question, the free slots last.
PcOrder ==
    <<"getSession", "addAnswer", "evaluateCurrentAnswer", "evaluateAnswer",
      "moveToNextQuestion", "evaluating", "idle">>

Rank(order, x) == CHOOSE i \in 1 .. Len(order) : order[i] = x

PcRank == [pc \in {PcOrder[i] : i \in 1 .. Len(PcOrder)} |-> Rank(PcOrder, pc)]
SessionIdRank == [id \in SessionIds |-> Rank(SessionIdOrder, id)]

\* The three as one number, the first weighing most
Key(slot) ==
    IF slot.pc = "idle" THEN PcRank["idle"] * (Len(SessionIdOrder) + 1) * (MaxQuestions + 2)
    ELSE (PcRank[slot.pc] * (Len(SessionIdOrder) + 1) + SessionIdRank[slot.sessionId])
             * (MaxQuestions + 2) + slot.question + 1

SlotOrders == Permutations(Slots)

Sorted(p) ==
    LET key == [k \in Slots |-> Key(p[k])]
        order == CHOOSE perm \in SlotOrders :
                     \A i \in Slots \ {MaxPending} : key[perm[i]] <= key[perm[i + 1]]
    IN  [k \in Slots |-> p[order[k]]]

----------------------------------------------------------------------------
(* SessionManager *)

\* What a method leaves behind: how it ended, and the Map
Outcome(r, map) == [result |-> r, sessions |-> map]

\* A faulty variant of createSession: the new session put over the one the
\* id already had, keeping its answers
createSessionBodyKeepingAnswers(sessionId, generated) ==
    IF Len(generated) = 0
    THEN Outcome("Failed to generate questions for session", sessions)
    ELSE Outcome("ok", MapSet(sessions, sessionId,
                              [questions |-> generated,
                               currentQuestionIndex |-> 0,
                               answers |-> IF Has(sessionId) THEN sessions[sessionId].answers
                                           ELSE <<>>,
                               evaluation |-> Undefined,
                               status |-> "in_progress",
                               startedAt |-> now,
                               completedAt |-> Undefined,
                               overallScore |-> Undefined]))

\* createSession from `if (sessionQuestions.length === 0)` on; sessionId is
\* the id drawn at the top of the method, generated what generateQuestions
\* returned.
createSessionBody(sessionId, generated) ==
    IF Len(generated) = 0
    THEN Outcome("Failed to generate questions for session", sessions)
    ELSE Outcome("ok", MapSet(sessions, sessionId,
                              [questions |-> generated,
                               currentQuestionIndex |-> 0,
                               answers |-> <<>>,
                               evaluation |-> Undefined,
                               status |-> "in_progress",
                               startedAt |-> now,
                               completedAt |-> Undefined,
                               overallScore |-> Undefined]))

createSession(sessionId, generated) ==
    /\ manager = "SessionManager"
    /\ sessionId \notin InFlight
    /\ result' = createSessionBody(sessionId, generated).result
    /\ sessions' = createSessionBody(sessionId, generated).sessions
    /\ report' = NoReport
    /\ UNCHANGED <<manager, stt, app, evaluator, generator, now, callbacks, pending>>

getSession(sessionId) ==
    /\ manager = "SessionManager"
    /\ result' = IF ~Has(sessionId) THEN "null" ELSE "ok"
    /\ report' = NoReport
    /\ UNCHANGED <<manager, stt, app, evaluator, generator, sessions, now, callbacks, pending>>

\* Faulty variants of addAnswer, for testing the properties below:
\* the push made before the check,
addAnswerBodyPushFirst(sessionId, questionId) ==
    IF ~Has(sessionId)
    THEN Outcome("Session not found", sessions)
    ELSE LET session == sessions[sessionId]
             attempt == CountAnswers(session.answers, questionId) + 1
             answer == [questionId |-> questionId, attempt |-> attempt]
             pushed == [sessions EXCEPT ![sessionId].answers = Append(@, answer)]
         IN  IF CurrentQuestion(session) = Undefined \/ CurrentQuestion(session) # questionId
             THEN Outcome("Question mismatch", pushed)
             ELSE Outcome("ok", pushed)

\* the attempt counted over all the answers of the session,
addAnswerBodyCountAll(sessionId, questionId) ==
    IF ~Has(sessionId)
    THEN Outcome("Session not found", sessions)
    ELSE LET session == sessions[sessionId]
             attempt == Len(session.answers) + 1
             answer == [questionId |-> questionId, attempt |-> attempt]
         IN  IF CurrentQuestion(session) = Undefined \/ CurrentQuestion(session) # questionId
             THEN Outcome("Question mismatch", sessions)
             ELSE Outcome("ok", [sessions EXCEPT ![sessionId].answers = Append(@, answer)])

\* the index moved on by the push,
addAnswerBodyAdvancing(sessionId, questionId) ==
    IF ~Has(sessionId)
    THEN Outcome("Session not found", sessions)
    ELSE LET session == sessions[sessionId]
             attempt == CountAnswers(session.answers, questionId) + 1
             answer == [questionId |-> questionId, attempt |-> attempt]
         IN  IF CurrentQuestion(session) = Undefined \/ CurrentQuestion(session) # questionId
             THEN Outcome("Question mismatch", sessions)
             ELSE Outcome("ok", [sessions EXCEPT
                     ![sessionId].answers = Append(@, answer),
                     ![sessionId].currentQuestionIndex =
                         IF @ < Len(session.questions) - 1 THEN @ + 1 ELSE @])

\* and the check left out.
addAnswerBodyUnchecked(sessionId, questionId) ==
    IF ~Has(sessionId)
    THEN Outcome("Session not found", sessions)
    ELSE LET session == sessions[sessionId]
             attempt == CountAnswers(session.answers, questionId) + 1
             answer == [questionId |-> questionId, attempt |-> attempt]
         IN  Outcome("ok", [sessions EXCEPT ![sessionId].answers = Append(@, answer)])

\* addAnswer: the lookup, the check, the push and updateSession
addAnswerBody(sessionId, questionId) ==
    IF ~Has(sessionId)
    THEN Outcome("Session not found", sessions)
    ELSE LET session == sessions[sessionId]
             attempt == CountAnswers(session.answers, questionId) + 1
             answer == [questionId |-> questionId, attempt |-> attempt]
         IN  IF CurrentQuestion(session) = Undefined \/ CurrentQuestion(session) # questionId
             THEN Outcome("Question mismatch", sessions)
             ELSE Outcome("ok", [sessions EXCEPT ![sessionId].answers = Append(@, answer)])

\* The answers list has room for the push of addAnswer(sessionId, questionId)
RoomFor(sessionId, questionId) ==
    (Has(sessionId) /\ CurrentQuestion(sessions[sessionId]) = questionId)
        => Len(sessions[sessionId].answers) < MaxAnswers

addAnswer(sessionId, questionId) ==
    /\ manager = "SessionManager"
    /\ RoomFor(sessionId, questionId)
    /\ result' = addAnswerBody(sessionId, questionId).result
    /\ sessions' = addAnswerBody(sessionId, questionId).sessions
    /\ report' = NoReport
    /\ UNCHANGED <<manager, stt, app, evaluator, generator, now, callbacks, pending>>

\* evaluateCurrentAnswer up to the call of llmAdapter.evaluateAnswer
evaluateCurrentAnswerBody(sessionId) ==
    IF ~Has(sessionId) THEN "Session not found"
    ELSE IF CurrentQuestion(sessions[sessionId]) = Undefined THEN "No current question"
    ELSE "ok"

\* The evaluation is returned to the caller and stored nowhere
evaluateCurrentAnswer(sessionId) ==
    /\ manager = "SessionManager"
    /\ result' = evaluateCurrentAnswerBody(sessionId)
    /\ report' = NoReport
    /\ UNCHANGED <<manager, stt, app, evaluator, generator, sessions, now, callbacks, pending>>

\* calculateOverallScore; random is the value of Math.round(Math.random() * 40 + 60)
calculateOverallScore(session, random) ==
    IF Len(session.answers) = 0 THEN 0 ELSE random

\* generateSessionEvaluation: of the SessionEvaluation only overallScore
\* (session.overallScore || 0) is kept; the per-question scores are random.
generateSessionEvaluation(session) ==
    IF session.overallScore = Undefined THEN 0 ELSE session.overallScore

\* A faulty variant of the if/else of moveToNextQuestion: the bound of the
\* list off by one
AdvancedPastEnd(session, random) ==
    IF session.currentQuestionIndex < Len(session.questions)
    THEN [session EXCEPT !.currentQuestionIndex = @ + 1]
    ELSE LET scored == [session EXCEPT !.status = "completed",
                                       !.completedAt = now,
                                       !.overallScore = calculateOverallScore(session, random)]
         IN  [scored EXCEPT !.evaluation = generateSessionEvaluation(scored)]

\* A faulty variant: the question left behind taken off the list
AdvancedDroppingQuestion(session, random) ==
    IF session.currentQuestionIndex < Len(session.questions) - 1
    THEN [session EXCEPT !.questions = Tail(@)]
    ELSE LET scored == [session EXCEPT !.status = "completed",
                                       !.completedAt = now,
                                       !.overallScore = calculateOverallScore(session, random)]
         IN  [scored EXCEPT !.evaluation = generateSessionEvaluation(scored)]

\* The session after the if/else of moveToNextQuestion
Advanced(session, random) ==
    IF session.currentQuestionIndex < Len(session.questions) - 1
    THEN [session EXCEPT !.currentQuestionIndex = @ + 1]
    ELSE LET scored == [session EXCEPT !.status = "completed",
                                       !.completedAt = now,
                                       !.overallScore = calculateOverallScore(session, random)]
         IN  [scored EXCEPT !.evaluation = generateSessionEvaluation(scored)]

moveToNextQuestionBody(sessionId, random) ==
    IF ~Has(sessionId)
    THEN Outcome("Session not found", sessions)
    ELSE Outcome("ok", [sessions EXCEPT ![sessionId] = Advanced(@, random)])

moveToNextQuestion(sessionId, random) ==
    /\ manager = "SessionManager"
    /\ result' = moveToNextQuestionBody(sessionId, random).result
    /\ sessions' = moveToNextQuestionBody(sessionId, random).sessions
    /\ report' = NoReport
    /\ UNCHANGED <<manager, stt, app, evaluator, generator, now, callbacks, pending>>

\* Math.round(Math.random() * 40 + 50), the score getSessionReport gives a
\* question: the least and the greatest value
ReportScores == {50, 90}

\* questionScores of getSessionReport: of each entry its score, placeholders
\* the values Math.random() gave
questionScores(session, placeholders) ==
    [index \in 1 .. Len(session.questions) |-> placeholders[index]]

\* The object getSessionReport returns: of its fields the two counts and
\* the scores
Report(session, scores) ==
    [questionScores |-> scores,
     questionsAnswered |-> Len(session.answers),
     totalQuestions |-> Len(session.questions)]

\* The values Math.random() can give the questions of one report, and the
\* least of them for every question
ReportPlaceholders == [1 .. MaxQuestions -> ReportScores]
LeastPlaceholders == {[index \in 1 .. MaxQuestions |-> 50]}

\* getSessionReport builds its report from the session and writes nothing
\* to it
getSessionReport(sessionId, placeholders) ==
    /\ manager = "SessionManager"
    /\ IF ~Has(sessionId)
       THEN /\ result' = "Session not found"
            /\ report' = NoReport
       ELSE /\ result' = "ok"
            /\ report' = Report(sessions[sessionId],
                                questionScores(sessions[sessionId], placeholders))
    /\ UNCHANGED <<manager, stt, app, evaluator, generator, sessions, now, callbacks, pending>>

\* A faulty variant of deleteSession: the Map cleared
deleteSessionClearing(sessionId) ==
    /\ manager = "SessionManager"
    /\ sessionId \notin InFlight
    /\ sessions' = <<>>
    /\ result' = "ok"
    /\ report' = NoReport
    /\ UNCHANGED <<manager, stt, app, evaluator, generator, now, callbacks, pending>>

\* A faulty variant of deleteSession: an absent id refused
deleteSessionStrict(sessionId) ==
    /\ manager = "SessionManager"
    /\ sessionId \notin InFlight
    /\ sessions' = MapDelete(sessions, {sessionId})
    /\ result' = IF Has(sessionId) THEN "ok" ELSE "Session not found"
    /\ report' = NoReport
    /\ UNCHANGED <<manager, stt, app, evaluator, generator, now, callbacks, pending>>

deleteSession(sessionId) ==
    /\ manager = "SessionManager"
    /\ sessionId \notin InFlight
    /\ sessions' = MapDelete(sessions, {sessionId})
    /\ result' = "ok"
    /\ report' = NoReport
    /\ UNCHANGED <<manager, stt, app, evaluator, generator, now, callbacks, pending>>

HoursPerTick == 25      \* one tick of the clock, in hours
ExpiryHours == 24       \* if (hoursSinceCreated > 24)

cleanupExpiredSessions ==
    /\ manager = "SessionManager"
    /\ LET expiredSessions ==
               {id \in DOMAIN sessions :
                   (now - sessions[id].startedAt) * HoursPerTick > ExpiryHours}
       IN  /\ expiredSessions \cap InFlight = {}
           /\ sessions' = MapDelete(sessions, expiredSessions)
    /\ result' = "ok"
    /\ report' = NoReport
    /\ UNCHANGED <<manager, stt, app, evaluator, generator, now, callbacks, pending>>

----------------------------------------------------------------------------
(* SessionLifecycleManager *)

MaxAttempts == 3        \* if (attempts >= 3)
PassScore == 70         \* if (evaluation.score >= 70)
FollowUpScore == 50     \* else if (evaluation.score >= 50 && evaluation.score < 70)

\* session.attempts[questionId] || 0
AttemptsOf(session, questionId) ==
    IF questionId \in DOMAIN session.attempts THEN session.attempts[questionId] ELSE 0

\* Object.values(session.attempts).reduce((sum, attempts) => sum + attempts, 0)
RECURSIVE SumValues(_, _)
SumValues(object, keys) ==
    IF keys = {} THEN 0
    ELSE LET key == CHOOSE k \in keys : TRUE
         IN  object[key] + SumValues(object, keys \ {key})

TotalAttempts(session) == SumValues(session.attempts, DOMAIN session.attempts)

\* calculateOverallScore of SessionLifecycleManager:
\*   Math.round(completionRate * 70 + attemptEfficiency * 30)
\* as the exact quotient num / den rounded half up (Math.round), with
\*   completionRate = (index + 1) / length,
\*   attemptEfficiency = max(0, (4 - total / keys) / 3).
LifecycleCalculateOverallScore(session) ==
    IF Len(session.answers) = 0 THEN 0
    ELSE LET keys == IF DOMAIN session.attempts = {} THEN 1
                     ELSE Cardinality(DOMAIN session.attempts)
             total == TotalAttempts(session)
             spare == IF 4 * keys - total > 0 THEN 4 * keys - total ELSE 0
             length == Len(session.questions)
             num == 70 * (session.currentQuestionIndex + 1) * keys + 10 * spare * length
             den == length * keys
         IN  (2 * num + den) \div (2 * den)

\* A faulty variant of the private moveToNextQuestion: the index is left
\* where it is
LifecycleMoveToNextQuestionStaying(session) ==
    IF session.currentQuestionIndex < Len(session.questions) - 1
    THEN [session |-> session,
          fired |-> <<>>]
    ELSE [session |-> [session EXCEPT !.status = "completed",
                                      !.completedAt = now,
                                      !.overallScore = LifecycleCalculateOverallScore(session)],
          fired |-> <<"onSessionCompleted">>]

\* The private moveToNextQuestion(session): the session after it, and the
\* callbacks it fired
LifecycleMoveToNextQuestion(session) ==
    IF session.currentQuestionIndex < Len(session.questions) - 1
    THEN [session |-> [session EXCEPT !.currentQuestionIndex = @ + 1],
          fired |-> <<>>]
    ELSE [session |-> [session EXCEPT !.status = "completed",
                                      !.completedAt = now,
                                      !.overallScore = LifecycleCalculateOverallScore(session)],
          fired |-> <<"onSessionCompleted">>]

initSession(sessionId, generated) ==
    /\ manager = "SessionLifecycleManager"
    /\ sessionId \notin InFlight
    /\ IF Len(generated) = 0
       THEN /\ result' = "Failed to generate questions for session"
            /\ UNCHANGED sessions
       ELSE /\ result' = "ok"
            /\ sessions' = MapSet(sessions, sessionId,
                                  [questions |-> generated,
                                   currentQuestionIndex |-> 0,
                                   answers |-> <<>>,
                                   evaluation |-> Undefined,
                                   status |-> "in_progress",
                                   startedAt |-> now,
                                   completedAt |-> Undefined,
                                   overallScore |-> Undefined,
                                   attempts |-> <<>>,
                                   remedialQuestions |-> {}])
    /\ callbacks' = <<>>
    /\ report' = NoReport
    /\ UNCHANGED <<manager, stt, app, evaluator, generator, now, pending>>

getCurrentQuestion(sessionId) ==
    /\ manager = "SessionLifecycleManager"
    /\ result' = IF ~Has(sessionId) THEN "null"
                 ELSE IF sessions[sessionId].status # "in_progress" THEN "null"
                 ELSE IF CurrentQuestion(sessions[sessionId]) = Undefined THEN "null"
                 ELSE "ok"
    /\ callbacks' = <<>>
    /\ report' = NoReport
    /\ UNCHANGED <<manager, stt, app, evaluator, generator, sessions, now, pending>>

\* A faulty variant of submitAnswer: the limit tested with > for >=
submitAnswerFourAttempts(sessionId) ==
    /\ manager = "SessionLifecycleManager"
    /\ IF ~Has(sessionId)
       THEN /\ result' = "null" /\ callbacks' = <<>>
            /\ UNCHANGED <<sessions, pending>>
       ELSE LET session == sessions[sessionId]
                currentQuestion == CurrentQuestion(session)
                attempts == AttemptsOf(session, currentQuestion)
            IN  IF session.status # "in_progress" \/ currentQuestion = Undefined
                THEN /\ result' = "null" /\ callbacks' = <<>>
                     /\ UNCHANGED <<sessions, pending>>
                ELSE IF attempts > MaxAttempts
                THEN /\ result' = "Max attempts reached"
                     /\ callbacks' = LifecycleMoveToNextQuestion(session).fired
                     /\ sessions' = [sessions EXCEPT
                                        ![sessionId] = LifecycleMoveToNextQuestion(session).session]
                     /\ UNCHANGED pending
                ELSE /\ \E k \in Slots : pending[k].pc = "idle"
                     /\ sessions' = [sessions EXCEPT
                            ![sessionId].attempts = MapSet(@, currentQuestion, attempts + 1),
                            ![sessionId].answers = Append(@, [questionId |-> currentQuestion,
                                                              attempt |-> attempts + 1])]
                     /\ pending' = Sorted([pending EXCEPT ![FreeSlot] =
                                       [pc |-> "evaluating",
                                        sessionId |-> sessionId,
                                        question |-> currentQuestion]])
                     /\ result' = "pending"
                     /\ callbacks' = <<>>
    /\ report' = NoReport
    /\ UNCHANGED <<manager, stt, app, evaluator, generator, now>>

\* A faulty variant of submitAnswer: the status of the session not looked at
submitAnswerAnyStatus(sessionId) ==
    /\ manager = "SessionLifecycleManager"
    /\ IF ~Has(sessionId)
       THEN /\ result' = "null" /\ callbacks' = <<>>
            /\ UNCHANGED <<sessions, pending>>
       ELSE LET session == sessions[sessionId]
                currentQuestion == CurrentQuestion(session)
                attempts == AttemptsOf(session, currentQuestion)
            IN  IF currentQuestion = Undefined
                THEN /\ result' = "null" /\ callbacks' = <<>>
                     /\ UNCHANGED <<sessions, pending>>
                ELSE IF attempts >= MaxAttempts
                THEN /\ result' = "Max attempts reached"
                     /\ callbacks' = LifecycleMoveToNextQuestion(session).fired
                     /\ sessions' = [sessions EXCEPT
                                        ![sessionId] = LifecycleMoveToNextQuestion(session).session]
                     /\ UNCHANGED pending
                ELSE /\ \E k \in Slots : pending[k].pc = "idle"
                     /\ sessions' = [sessions EXCEPT
                            ![sessionId].attempts = MapSet(@, currentQuestion, attempts + 1),
                            ![sessionId].answers = Append(@, [questionId |-> currentQuestion,
                                                              attempt |-> attempts + 1])]
                     /\ pending' = Sorted([pending EXCEPT ![FreeSlot] =
                                       [pc |-> "evaluating",
                                        sessionId |-> sessionId,
                                        question |-> currentQuestion]])
                     /\ result' = "pending"
                     /\ callbacks' = <<>>
    /\ report' = NoReport
    /\ UNCHANGED <<manager, stt, app, evaluator, generator, now>>

\* submitAnswer up to `await llmAdapter.evaluateAnswer(...)`
submitAnswer(sessionId) ==
    /\ manager = "SessionLifecycleManager"
    /\ IF ~Has(sessionId)
       THEN /\ result' = "null" /\ callbacks' = <<>>
            /\ UNCHANGED <<sessions, pending>>
       ELSE LET session == sessions[sessionId]
                currentQuestion == CurrentQuestion(session)
                attempts == AttemptsOf(session, currentQuestion)
            IN  IF session.status # "in_progress" \/ currentQuestion = Undefined
                THEN /\ result' = "null" /\ callbacks' = <<>>
                     /\ UNCHANGED <<sessions, pending>>
                ELSE IF attempts >= MaxAttempts
                THEN /\ result' = "Max attempts reached"
                     /\ callbacks' = LifecycleMoveToNextQuestion(session).fired
                     /\ sessions' = [sessions EXCEPT
                                        ![sessionId] = LifecycleMoveToNextQuestion(session).session]
                     /\ UNCHANGED pending
                ELSE /\ \E k \in Slots : pending[k].pc = "idle"
                     /\ sessions' = [sessions EXCEPT
                            ![sessionId].attempts = MapSet(@, currentQuestion, attempts + 1),
                            ![sessionId].answers = Append(@, [questionId |-> currentQuestion,
                                                              attempt |-> attempts + 1])]
                     /\ pending' = Sorted([pending EXCEPT ![FreeSlot] =
                                       [pc |-> "evaluating",
                                        sessionId |-> sessionId,
                                        question |-> currentQuestion]])
                     /\ result' = "pending"
                     /\ callbacks' = <<>>
    /\ report' = NoReport
    /\ UNCHANGED <<manager, stt, app, evaluator, generator, now>>

\* A faulty variant of the agentic rules: a score of exactly 70 does not pass
submitAnswerResumeAbovePass(k, score) ==
    /\ manager = "SessionLifecycleManager"
    /\ pending[k].pc = "evaluating"
    /\ LET sessionId == pending[k].sessionId
           session == sessions[sessionId]
           question == pending[k].question
       IN  IF score > PassScore
           THEN /\ callbacks' = <<"onQuestionPassed">> \o LifecycleMoveToNextQuestion(session).fired
                /\ sessions' = [sessions EXCEPT
                                   ![sessionId] = LifecycleMoveToNextQuestion(session).session]
           ELSE IF score >= FollowUpScore
           THEN /\ callbacks' = <<"onFollowUpNeeded">>
                /\ UNCHANGED sessions
           ELSE /\ callbacks' = <<"onRemedialNeeded">>
                /\ sessions' = [sessions EXCEPT
                                   ![sessionId].remedialQuestions = @ \cup {question}]
    /\ pending' = Sorted([pending EXCEPT ![k] = Idle])
    /\ result' = "ok"
    /\ report' = NoReport
    /\ UNCHANGED <<manager, stt, app, evaluator, generator, now>>

\* submitAnswer from the return of llmAdapter.evaluateAnswer on
submitAnswerResume(k, score) ==
    /\ manager = "SessionLifecycleManager"
    /\ pending[k].pc = "evaluating"
    /\ LET sessionId == pending[k].sessionId
           session == sessions[sessionId]
           question == pending[k].question
       IN  IF score >= PassScore
           THEN /\ callbacks' = <<"onQuestionPassed">> \o LifecycleMoveToNextQuestion(session).fired
                /\ sessions' = [sessions EXCEPT
                                   ![sessionId] = LifecycleMoveToNextQuestion(session).session]
           ELSE IF score >= FollowUpScore /\ score < PassScore
           THEN /\ callbacks' = <<"onFollowUpNeeded">>
                /\ UNCHANGED sessions
           ELSE /\ callbacks' = <<"onRemedialNeeded">>
                /\ sessions' = [sessions EXCEPT
                                   ![sessionId].remedialQuestions = @ \cup {question}]
    /\ pending' = Sorted([pending EXCEPT ![k] = Idle])
    /\ result' = "ok"
    /\ report' = NoReport
    /\ UNCHANGED <<manager, stt, app, evaluator, generator, now>>

LifecycleGetSession(sessionId) ==
    /\ manager = "SessionLifecycleManager"
    /\ result' = IF ~Has(sessionId) THEN "null" ELSE "ok"
    /\ callbacks' = <<>>
    /\ report' = NoReport
    /\ UNCHANGED <<manager, stt, app, evaluator, generator, sessions, now, pending>>

\* A faulty variant of getReport: the score filled in whatever the status
getReportAnyStatus(sessionId) ==
    /\ manager = "SessionLifecycleManager"
    /\ IF ~Has(sessionId)
       THEN /\ result' = "null"
            /\ UNCHANGED sessions
       ELSE /\ result' = "ok"
            /\ IF sessions[sessionId].overallScore \in {Undefined, 0}
               THEN sessions' = [sessions EXCEPT ![sessionId].overallScore =
                                    LifecycleCalculateOverallScore(sessions[sessionId])]
               ELSE UNCHANGED sessions
    /\ callbacks' = <<>>
    /\ report' = NoReport
    /\ UNCHANGED <<manager, stt, app, evaluator, generator, now, pending>>

getReport(sessionId) ==
    /\ manager = "SessionLifecycleManager"
    /\ IF ~Has(sessionId)
       THEN /\ result' = "null"
            /\ UNCHANGED sessions
       ELSE /\ result' = "ok"
            /\ IF /\ sessions[sessionId].status = "completed"
                  /\ sessions[sessionId].overallScore \in {Undefined, 0}
               THEN sessions' = [sessions EXCEPT ![sessionId].overallScore =
                                    LifecycleCalculateOverallScore(sessions[sessionId])]
               ELSE UNCHANGED sessions
    /\ callbacks' = <<>>
    /\ report' = NoReport
    /\ UNCHANGED <<manager, stt, app, evaluator, generator, now, pending>>

forceNextQuestion(sessionId) ==
    /\ manager = "SessionLifecycleManager"
    /\ IF ~Has(sessionId)
       THEN /\ result' = "null" /\ callbacks' = <<>>
            /\ UNCHANGED sessions
       ELSE /\ result' = "ok"
            /\ callbacks' = LifecycleMoveToNextQuestion(sessions[sessionId]).fired
            /\ sessions' = [sessions EXCEPT
                               ![sessionId] = LifecycleMoveToNextQuestion(@).session]
    /\ report' = NoReport
    /\ UNCHANGED <<manager, stt, app, evaluator, generator, now, pending>>

getSessionStats(sessionId) ==
    /\ manager = "SessionLifecycleManager"
    /\ result' = IF ~Has(sessionId) THEN "null" ELSE "ok"
    /\ callbacks' = <<>>
    /\ report' = NoReport
    /\ UNCHANGED <<manager, stt, app, evaluator, generator, sessions, now, pending>>

----------------------------------------------------------------------------
(* routes/api.ts over SessionManager.  A handler runs up to its next await *)
(* in one step; result is the status of the last response sent.            *)

\* The slot k is given up and the response sent
Respond(k, status) ==
    /\ pending' = Sorted([pending EXCEPT ![k] = Idle])
    /\ result' = status

\* POST /sessions
postSessions(sessionId, generated) ==
    /\ manager = "api"
    /\ sessionId \notin InFlight
    /\ sessions' = createSessionBody(sessionId, generated).sessions
    /\ result' = IF createSessionBody(sessionId, generated).result = "ok" THEN "201" ELSE "500"
    /\ report' = NoReport
    /\ UNCHANGED <<manager, stt, app, evaluator, generator, now, callbacks, pending>>

\* POST /sessions/:sessionId/answer up to `await sessionManager.getSession`
postAnswer(sessionId) ==
    /\ manager = "api"
    /\ \E k \in Slots : pending[k].pc = "idle"
    /\ pending' = Sorted([pending EXCEPT ![FreeSlot] =
                      [pc |-> "getSession", sessionId |-> sessionId, question |-> Undefined]])
    /\ report' = NoReport
    /\ UNCHANGED <<manager, stt, app, evaluator, generator, sessions, now, result, callbacks>>

\* ... from there to the await inside addAnswer
postAnswerChecks(k) ==
    /\ manager = "api"
    /\ pending[k].pc = "getSession"
    /\ LET sessionId == pending[k].sessionId
       IN  IF ~Has(sessionId) THEN Respond(k, "404")
           ELSE IF sessions[sessionId].status # "in_progress" THEN Respond(k, "400")
           ELSE IF CurrentQuestion(sessions[sessionId]) = Undefined THEN Respond(k, "400")
           ELSE /\ pending' = Sorted([pending EXCEPT ![k].pc = "addAnswer",
                                              ![k].question = CurrentQuestion(sessions[sessionId])])
                /\ UNCHANGED result
    /\ report' = NoReport
    /\ UNCHANGED <<manager, stt, app, evaluator, generator, sessions, now, callbacks>>

\* One answer more than the three attempts of the policy
MaxRouteAnswers == MaxAttempts + 1

\* The answers list has room for the push of the route's addAnswer
RouteRoomFor(sessionId, questionId) ==
    (Has(sessionId) /\ CurrentQuestion(sessions[sessionId]) = questionId)
        => Len(sessions[sessionId].answers) < MaxRouteAnswers

\* ... the rest of addAnswer, to the await inside evaluateCurrentAnswer
postAnswerAddAnswer(k) ==
    /\ manager = "api"
    /\ pending[k].pc = "addAnswer"
    /\ RouteRoomFor(pending[k].sessionId, pending[k].question)
    /\ LET outcome == addAnswerBody(pending[k].sessionId, pending[k].question)
       IN  /\ sessions' = outcome.sessions
           /\ IF outcome.result = "ok"
              THEN /\ pending' = Sorted([pending EXCEPT ![k].pc = "evaluateCurrentAnswer"])
                   /\ UNCHANGED result
              ELSE Respond(k, "500")
    /\ report' = NoReport
    /\ UNCHANGED <<manager, stt, app, evaluator, generator, now, callbacks>>

\* ... the rest of evaluateCurrentAnswer, to `await llmAdapter.evaluateAnswer`
postAnswerEvaluate(k) ==
    /\ manager = "api"
    /\ pending[k].pc = "evaluateCurrentAnswer"
    /\ IF evaluateCurrentAnswerBody(pending[k].sessionId) = "ok"
       THEN /\ pending' = Sorted([pending EXCEPT ![k].pc = "evaluateAnswer"])
            /\ UNCHANGED result
       ELSE Respond(k, "500")
    /\ report' = NoReport
    /\ UNCHANGED <<manager, stt, app, evaluator, generator, sessions, now, callbacks>>

\* ... with a move after every evaluation
postAnswerEvaluatedAlwaysMoves(k, evaluation) ==
    /\ manager = "api"
    /\ pending[k].pc = "evaluateAnswer"
    /\ pending' = Sorted([pending EXCEPT ![k].pc = "moveToNextQuestion"])
    /\ report' = NoReport
    /\ UNCHANGED <<manager, stt, app, evaluator, generator, sessions, now, result, callbacks>>

\* ... from the evaluation to the await inside moveToNextQuestion, or to
\* the response
postAnswerEvaluated(k, evaluation) ==
    /\ manager = "api"
    /\ pending[k].pc = "evaluateAnswer"
    /\ IF evaluation.pass \/ evaluation.score >= 60
       THEN /\ pending' = Sorted([pending EXCEPT ![k].pc = "moveToNextQuestion"])
            /\ UNCHANGED result
       ELSE Respond(k, "200")
    /\ report' = NoReport
    /\ UNCHANGED <<manager, stt, app, evaluator, generator, sessions, now, callbacks>>

\* ... or llmAdapter.evaluateAnswer throws, and the catch responds
postAnswerEvaluationThrows(k) ==
    /\ manager = "api"
    /\ pending[k].pc = "evaluateAnswer"
    /\ Respond(k, "500")
    /\ report' = NoReport
    /\ UNCHANGED <<manager, stt, app, evaluator, generator, sessions, now, callbacks>>

\* ... the rest of moveToNextQuestion, and the response
postAnswerMove(k, random) ==
    /\ manager = "api"
    /\ pending[k].pc = "moveToNextQuestion"
    /\ LET outcome == moveToNextQuestionBody(pending[k].sessionId, random)
       IN  /\ sessions' = outcome.sessions
           /\ Respond(k, IF outcome.result = "ok" THEN "200" ELSE "500")
    /\ report' = NoReport
    /\ UNCHANGED <<manager, stt, app, evaluator, generator, now, callbacks>>

\* GET /sessions/:sessionId/report
getReportRoute(sessionId) ==
    /\ manager = "api"
    /\ result' = IF Has(sessionId) THEN "200" ELSE "404"
    /\ report' = NoReport
    /\ UNCHANGED <<manager, stt, app, evaluator, generator, sessions, now, callbacks, pending>>

\* GET /sessions/:sessionId/status
getStatusRoute(sessionId) ==
    /\ manager = "api"
    /\ result' = IF Has(sessionId) THEN "200" ELSE "404"
    /\ report' = NoReport
    /\ UNCHANGED <<manager, stt, app, evaluator, generator, sessions, now, callbacks, pending>>

----------------------------------------------------------------------------
(* The earlier SessionManager (data/questions.ts, from line 154).  It      *)
(* picks its questions from the fixed bank, keeps every EvaluationResult   *)
(* it is given, and calls the status of a running session 'active'.        *)

\* The ids of `questions`, in the order of the array
QuestionBank == [i \in 1 .. MaxQuestions |-> i]

UnknownId == MaxQuestions + 1    \* a question id that is not in the bank

\* The scores of the EvaluationResults given to addEvaluation
LegacyScores == {40, 75}

\* What a caller may pass as questionIds; {} stands for none given
RequestedIds == SUBSET (QuestionIds \cup {UnknownId})

\* sessionQuestions after the if/else chain of createSession.  The bank has
\* questions of every difficulty, so only the first branch can come up empty.
SelectedQuestions(questionIds) ==
    IF questionIds # {}
    THEN SelectSeq(QuestionBank, LAMBDA q : q \in questionIds)
    ELSE QuestionBank

LegacyCreateSession(sessionId, questionIds) ==
    /\ manager = "LegacySessionManager"
    /\ sessions' = MapSet(sessions, sessionId,
                          [questions |-> SelectedQuestions(questionIds),
                           currentQuestionIndex |-> 0,
                           answers |-> <<>>,
                           evaluations |-> <<>>,
                           status |-> "active",
                           createdAt |-> now,
                           completedAt |-> Undefined,
                           overallScore |-> Undefined])
    /\ result' = "ok"
    /\ report' = NoReport
    /\ UNCHANGED <<manager, stt, app, evaluator, generator, now, callbacks, pending>>

\* addAnswer, line for line the one of services/SessionManager.ts
LegacyAddAnswer(sessionId, questionId) ==
    /\ manager = "LegacySessionManager"
    /\ RoomFor(sessionId, questionId)
    /\ result' = addAnswerBody(sessionId, questionId).result
    /\ sessions' = addAnswerBody(sessionId, questionId).sessions
    /\ report' = NoReport
    /\ UNCHANGED <<manager, stt, app, evaluator, generator, now, callbacks, pending>>

addEvaluation(sessionId, score) ==
    /\ manager = "LegacySessionManager"
    /\ IF ~Has(sessionId)
       THEN /\ result' = "Session not found"
            /\ UNCHANGED sessions
       ELSE /\ Len(sessions[sessionId].evaluations) < MaxAnswers
            /\ result' = "ok"
            /\ sessions' = [sessions EXCEPT ![sessionId].evaluations = Append(@, score)]
    /\ report' = NoReport
    /\ UNCHANGED <<manager, stt, app, evaluator, generator, now, callbacks, pending>>

\* Math.round(scores.reduce((sum, score) => sum + score, 0) / scores.length)
LegacyCalculateOverallScore(session) ==
    IF Len(session.evaluations) = 0 THEN 0
    ELSE (2 * SumSeq(session.evaluations) + Len(session.evaluations))
             \div (2 * Len(session.evaluations))

\* The session after the if/else of moveToNextQuestion
LegacyAdvanced(session) ==
    IF session.currentQuestionIndex < Len(session.questions) - 1
    THEN [session EXCEPT !.currentQuestionIndex = @ + 1]
    ELSE [session EXCEPT !.status = "completed",
                         !.completedAt = now,
                         !.overallScore = LegacyCalculateOverallScore(session)]

LegacyMoveToNextQuestion(sessionId) ==
    /\ manager = "LegacySessionManager"
    /\ IF ~Has(sessionId)
       THEN /\ result' = "Session not found"
            /\ UNCHANGED sessions
       ELSE /\ result' = "ok"
            /\ sessions' = [sessions EXCEPT ![sessionId] = LegacyAdvanced(@)]
    /\ report' = NoReport
    /\ UNCHANGED <<manager, stt, app, evaluator, generator, now, callbacks, pending>>

\* questionEvals.reduce((best, current) =>
\*     current.score > (best?.score || 0) ? current : best, questionEvals[0])
\* and then bestEval?.score || 0
RECURSIVE BestScore(_, _)
BestScore(questionEvals, best) ==
    IF questionEvals = <<>> THEN best
    ELSE BestScore(Tail(questionEvals),
                   IF Head(questionEvals) > best THEN Head(questionEvals) ELSE best)

\* questionScores of getSessionReport: the filter of session.evaluations
\* keeps every evaluation when the question has an answer, none otherwise
LegacyQuestionScores(session) ==
    [index \in 1 .. Len(session.questions) |->
        LET questionEvals ==
                IF CountAnswers(session.answers, session.questions[index]) > 0
                THEN session.evaluations ELSE <<>>
        IN  IF questionEvals = <<>> THEN 0
            ELSE BestScore(questionEvals, Head(questionEvals))]

LegacyGetSessionReport(sessionId) ==
    /\ manager = "LegacySessionManager"
    /\ IF ~Has(sessionId)
       THEN /\ result' = "Session not found"
            /\ report' = NoReport
       ELSE /\ result' = "ok"
            /\ report' = Report(sessions[sessionId], LegacyQuestionScores(sessions[sessionId]))
    /\ UNCHANGED <<manager, stt, app, evaluator, generator, sessions, now, callbacks, pending>>

LegacyDeleteSession(sessionId) ==
    /\ manager = "LegacySessionManager"
    /\ sessions' = MapDelete(sessions, {sessionId})
    /\ result' = "ok"
    /\ report' = NoReport
    /\ UNCHANGED <<manager, stt, app, evaluator, generator, now, callbacks, pending>>

LegacyCleanupExpiredSessions ==
    /\ manager = "LegacySessionManager"
    /\ sessions' = MapDelete(sessions,
                             {id \in DOMAIN sessions :
                                 (now - sessions[id].createdAt) * HoursPerTick > ExpiryHours})
    /\ result' = "ok"
    /\ report' = NoReport
    /\ UNCHANGED <<manager, stt, app, evaluator, generator, now, callbacks, pending>>

----------------------------------------------------------------------------
(* The clock *)

Tick ==
    /\ now < MaxTime
    /\ now' = now + 1
    /\ report' = NoReport
    /\ UNCHANGED <<manager, stt, app, evaluator, generator, sessions, result, callbacks, pending>>

----------------------------------------------------------------------------
(* One of the four, its operations called in any order on one session id,  *)
(* which createSession draws again and again                               *)

Init ==
    /\ manager \in {"SessionManager", "SessionLifecycleManager", "api", "LegacySessionManager"}
    /\ sessions = <<>>
    /\ now = 0
    /\ result = "ok"
    /\ callbacks = <<>>
    /\ pending = [k \in Slots |-> Idle]
    /\ evaluator = Off
    /\ report = NoReport
    /\ generator = Off
    /\ stt = Off
    /\ app = Off

Next ==
    \/ \E id \in OneId, generated \in GeneratedQuestions : createSession(id, generated)
    \/ \E id \in OneId : getSession(id)
    \/ \E id \in OneId, q \in QuestionIds : addAnswer(id, q)
    \/ \E id \in OneId : evaluateCurrentAnswer(id)
    \/ \E id \in OneId, random \in PlaceholderScores : moveToNextQuestion(id, random)
    \/ \E id \in OneId, placeholders \in ReportPlaceholders : getSessionReport(id, placeholders)
    \/ \E id \in OneId : deleteSession(id)
    \/ cleanupExpiredSessions
    \/ \E id \in OneId, generated \in GeneratedQuestions : initSession(id, generated)
    \/ \E id \in OneId : getCurrentQuestion(id)
    \/ \E id \in OneId : submitAnswer(id)
    \/ \E k \in Slots, score \in EvaluationScores : submitAnswerResume(k, score)
    \/ \E id \in OneId : LifecycleGetSession(id)
    \/ \E id \in OneId : getReport(id)
    \/ \E id \in OneId : forceNextQuestion(id)
    \/ \E id \in OneId : getSessionStats(id)
    \/ \E id \in OneId, generated \in GeneratedQuestions : postSessions(id, generated)
    \/ \E id \in OneId : postAnswer(id)
    \/ \E k \in Slots : postAnswerChecks(k)
    \/ \E k \in Slots : postAnswerAddAnswer(k)
    \/ \E k \in Slots : postAnswerEvaluate(k)
    \/ \E k \in Slots, evaluation \in Evaluations : postAnswerEvaluated(k, evaluation)
    \/ \E k \in Slots : postAnswerEvaluationThrows(k)
    \/ \E k \in Slots, random \in PlaceholderScores : postAnswerMove(k, random)
    \/ \E id \in OneId : getReportRoute(id)
    \/ \E id \in OneId : getStatusRoute(id)
    \/ \E id \in OneId, questionIds \in RequestedIds : LegacyCreateSession(id, questionIds)
    \/ \E id \in OneId, q \in QuestionIds : LegacyAddAnswer(id, q)
    \/ \E id \in OneId, score \in LegacyScores : addEvaluation(id, score)
    \/ \E id \in OneId : LegacyMoveToNextQuestion(id)
    \/ \E id \in OneId : LegacyGetSessionReport(id)
    \/ \E id \in OneId : LegacyDeleteSession(id)
    \/ LegacyCleanupExpiredSessions
    \/ Tick

Spec == Init /\ [][Next]_vars

----------------------------------------------------------------------------
(* llmAdapter.evaluateAnswer: RubricFirstEvaluator over NvidiaAdapter.      *)
(*                                                                         *)
(* A question and an answer are kept as what the scoring reads of them:    *)
(* how many keywords and expected-answer words the question has, and how   *)
(* many of them, of the formula words and of the numbers the answer        *)
(* holds, and its length.                                                  *)

MaxKeywords == 2        \* most question.keywords of a question
MaxExpectedWords == 1   \* most words longer than 3 in question.expectedAnswer
MaxFollowUps == 4       \* most followUps the oracle writes

ShortCircuit == 85      \* if (deterministicScore >= 85)
PassThreshold == 60     \* const pass = finalScore >= 60
FormulaKeywords == 11   \* formulaKeywords.length
FollowUpsKept == 3      \* llmResult.followUps.slice(0, 3)

\* Questions: keywords longer than 3 characters, the other keywords, and the
\* words of expectedAnswer.toLowerCase().split(/[\s,.;]+/) longer than 3
RubricQuestions ==
    {[longKeywords |-> l, shortKeywords |-> s, expectedWords |-> e] :
        l \in 0 .. MaxKeywords, s \in 0 .. MaxKeywords, e \in 0 .. MaxExpectedWords}

\* How many of the formulaKeywords, and how many numbers, an answer holds
FormulaMatches == {0, 6, FormulaKeywords}
NumberMatches == {0, 5, 10}

\* userAnswer.trim().length, on both sides of every threshold
AnswerLengths == {10, 50, 51, 100, 101, 200, 201, 220}

\* The answers to a question
AnswersTo(question) ==
    {[longMatched |-> l, shortMatched |-> s, expectedMatched |-> e,
      formulaTerms |-> f, numbers |-> n, length |-> len] :
        l \in 0 .. question.longKeywords, s \in 0 .. question.shortKeywords,
        e \in 0 .. question.expectedWords,
        f \in FormulaMatches, n \in NumberMatches, len \in AnswerLengths}

\* An answer is long enough for what it holds: the formula words have at
\* most 6 characters on average, a number and its separator take 2, a
\* keyword of 4 characters and its separator 5, a shorter one 2
Feasible(answer) ==
    answer.length >= 6 * answer.formulaTerms + 2 * answer.numbers
                         + 5 * (answer.longMatched + answer.expectedMatched)
                         + 2 * answer.shortMatched

\* What the call of the oracle comes to: no NVIDIA_API_KEY; callNvidiaAPI
\* throws (network error, no choices, empty content); the content is no
\* JSON; it is the JSON null; it is a JSON number, string or boolean; it is
\* a JSON object, with or without a score, with followUps an array or a
\* number.
OracleScores == {-10, 55, 70, 150}

OracleOutcomes ==
    {[kind |-> k] : k \in {"noKey", "throws", "malformed", "null", "scalar"}}
    \cup {[kind |-> "object", score |-> s, pass |-> p, followUps |-> n, followUpsType |-> "array"] :
            s \in OracleScores \cup {Undefined}, p \in BOOLEAN, n \in 0 .. MaxFollowUps}
    \cup {[kind |-> "object", score |-> s, pass |-> p, followUps |-> 0, followUpsType |-> "number"] :
            s \in OracleScores \cup {Undefined}, p \in BOOLEAN}

Least(a, b) == IF a <= b THEN a ELSE b
Greatest(a, b) == IF a >= b THEN a ELSE b

\* Math.round(num / den) for num >= 0, den > 0.  The doubles of the code
\* give the same on the inputs drawn here.
Round(num, den) == (2 * num + den) \div (2 * den)

keywordMatchScore(question, answer) ==
    LET keywords == question.longKeywords + question.expectedWords
        matches == answer.longMatched + answer.expectedMatched
    IN  Least(100, Round(matches * 100, Greatest(keywords, 1)))

formulaMentionScore(answer) ==
    Least(100, Round(answer.formulaTerms * 100, FormulaKeywords))

\* numericCheckScore with 5 points for a number
numericCheckScoreFivePoints(answer) ==
    IF answer.numbers > 0 THEN Least(100, answer.numbers * 5) ELSE 0

numericCheckScore(answer) ==
    IF answer.numbers > 0 THEN Least(100, answer.numbers * 10) ELSE 0

\* Math.min(100, Math.round(keywordScore * 0.6 + formulaScore * 0.3 + numericScore * 0.1))
deterministicScore(question, answer) ==
    Least(100, Round(keywordMatchScore(question, answer) * 6
                         + formulaMentionScore(answer) * 3
                         + numericCheckScore(answer), 10))

\* An EvaluationResult: the score, the pass flag, the number of followUps
\* and whether followUps is an array
EvaluationResult(score, pass, followUps) ==
    [score |-> score, pass |-> pass, followUps |-> followUps, followUpsType |-> "array"]

\* fallbackEvaluation without the step for answers longer than 200
fallbackEvaluationTwoSteps(question, answer) ==
    LET hasKeywords == answer.longMatched + answer.shortMatched > 0
        score == Least(100, 40
                     + (IF answer.length > 50 THEN 20 ELSE 0)
                     + (IF answer.length > 100 THEN 10 ELSE 0)
                     + (IF hasKeywords THEN 20 ELSE 0))
    IN  EvaluationResult(score, score >= 60, IF score < 70 THEN 2 ELSE 0)

fallbackEvaluation(question, answer) ==
    LET hasKeywords == answer.longMatched + answer.shortMatched > 0
        score == Least(100, 40
                     + (IF answer.length > 50 THEN 20 ELSE 0)
                     + (IF answer.length > 100 THEN 10 ELSE 0)
                     + (IF hasKeywords THEN 20 ELSE 0)
                     + (IF answer.length > 200 THEN 10 ELSE 0))
    IN  EvaluationResult(score, score >= 60, IF score < 70 THEN 2 ELSE 0)

\* parseResponse on the content the oracle returned
parseResponse(outcome) ==
    IF outcome.kind \in {"malformed", "null"} THEN EvaluationResult(50, FALSE, 0)
    ELSE IF outcome.kind = "scalar" THEN EvaluationResult(0, FALSE, 0)
    ELSE [score |-> IF outcome.score = Undefined THEN 0 ELSE outcome.score,
          pass |-> outcome.pass,
          followUps |-> outcome.followUps,
          followUpsType |-> outcome.followUpsType]

\* evaluateAnswer without the early return of a high deterministic score
rubricEvaluateAnswerAlwaysOracle ==
    /\ evaluator.pc = "evaluateAnswer"
    /\ evaluator' = [evaluator EXCEPT !.pc = "nvidiaClient"]
    /\ report' = NoReport
    /\ UNCHANGED <<manager, stt, app, generator, sessions, now, result, callbacks, pending>>

\* RubricFirstEvaluator.evaluateAnswer up to `await this.nvidiaClient.evaluateAnswer`
rubricEvaluateAnswer ==
    /\ evaluator.pc = "evaluateAnswer"
    /\ LET score == deterministicScore(evaluator.question, evaluator.answer)
       IN  IF score >= ShortCircuit
           THEN evaluator' = [evaluator EXCEPT !.pc = "returned",
                                               !.result = EvaluationResult(score, TRUE, 0)]
           ELSE evaluator' = [evaluator EXCEPT !.pc = "nvidiaClient"]
    /\ report' = NoReport
    /\ UNCHANGED <<manager, stt, app, generator, sessions, now, result, callbacks, pending>>

\* NvidiaAdapter.evaluateAnswer
nvidiaEvaluateAnswer(outcome) ==
    /\ evaluator.pc = "nvidiaClient"
    /\ evaluator' = [evaluator EXCEPT
           !.pc = "llmResult",
           !.oracleCalls = IF outcome.kind = "noKey" THEN @ ELSE @ + 1,
           !.outcome = outcome.kind,
           !.llmResult = IF outcome.kind \in {"noKey", "throws"}
                         THEN fallbackEvaluation(evaluator.question, evaluator.answer)
                         ELSE parseResponse(outcome)]
    /\ report' = NoReport
    /\ UNCHANGED <<manager, stt, app, generator, sessions, now, result, callbacks, pending>>

\* evaluateAnswer returning the oracle's result as it came
rubricCombineTrustingOracle ==
    /\ evaluator.pc = "llmResult"
    /\ evaluator' = [evaluator EXCEPT !.pc = "returned",
                                      !.result = evaluator.llmResult]
    /\ report' = NoReport
    /\ UNCHANGED <<manager, stt, app, generator, sessions, now, result, callbacks, pending>>

\* RubricFirstEvaluator.evaluateAnswer from there on
rubricCombine ==
    /\ evaluator.pc = "llmResult"
    /\ LET finalScore == Greatest(deterministicScore(evaluator.question, evaluator.answer),
                                  evaluator.llmResult.score)
           pass == finalScore >= PassThreshold
       IN  IF evaluator.llmResult.followUpsType # "array"
           THEN evaluator' = [evaluator EXCEPT !.pc = "thrown"]
           ELSE evaluator' = [evaluator EXCEPT
                    !.pc = "returned",
                    !.result = EvaluationResult(finalScore, pass,
                                   Least(FollowUpsKept, evaluator.llmResult.followUps))]
    /\ report' = NoReport
    /\ UNCHANGED <<manager, stt, app, generator, sessions, now, result, callbacks, pending>>

InitEvaluator ==
    /\ manager = "llmAdapter"
    /\ stt = Off
    /\ app = Off
    /\ report = NoReport
    /\ generator = Off
    /\ sessions = <<>>
    /\ now = 0
    /\ result = "ok"
    /\ callbacks = <<>>
    /\ pending = [k \in Slots |-> Idle]
    /\ \E question \in RubricQuestions :
          \E answer \in AnswersTo(question) :
              /\ question.longKeywords + question.shortKeywords <= MaxKeywords
              /\ Feasible(answer)
              /\ evaluator = [pc |-> "evaluateAnswer",
                              question |-> question,
                              answer |-> answer,
                              oracleCalls |-> 0,
                              outcome |-> "none",
                              llmResult |-> Undefined,
                              result |-> Undefined]

NextEvaluator ==
    \/ rubricEvaluateAnswer
    \/ \E outcome \in OracleOutcomes : nvidiaEvaluateAnswer(outcome)
    \/ rubricCombine

SpecEvaluator == InitEvaluator /\ [][NextEvaluator]_vars

----------------------------------------------------------------------------
(* llmAdapter.generateQuestions, and the createSession that awaits it      *)

MaxCount == 6           \* largest count asked of generateQuestions

KeywordsKept == 5       \* .slice(0, 5) of extractKeywords

Difficulties == {"beginner", "intermediate", "advanced"}

\* category: missing, one of the bank's, one nobody knows
Missing == ""
Categories == {Missing, "Formulas & Functions", "Underwater Basket Weaving"}

\* The templates of generateFallbackQuestions: of each text its length and
\* the number of its words longer than 2 characters that are no common word
Template(length, words) == [length |-> length, words |-> words]

Templates ==
    [beginner |-> <<Template(65, 5), Template(41, 5), Template(36, 4),
                    Template(49, 5), Template(33, 4)>>,
     intermediate |-> <<Template(52, 5), Template(39, 5), Template(50, 3),
                        Template(38, 4), Template(40, 5)>>,
     advanced |-> <<Template(46, 5), Template(51, 7), Template(39, 4),
                    Template(38, 5), Template(49, 5)>>]

\* array.slice(0, count) for a count of 0 or more
Slice(array, count) == SubSeq(array, 1, Least(count, Len(array)))

\* extractKeywords: the number of keywords it returns
extractKeywords(text) == Least(KeywordsKept, text.words)

\* generateFallbackQuestions numbering its questions by the clock alone
generateFallbackQuestionsOneId(count, difficulty, category) ==
    LET questionTexts == Templates[difficulty]
        selectedQuestions == Slice(questionTexts, count)
    IN  [index \in 1 .. Len(selectedQuestions) |->
            [id |-> <<"fallback", difficulty, 0>>,
             text |-> selectedQuestions[index].length,
             category |-> IF category = Missing THEN "Excel Fundamentals" ELSE category,
             difficulty |-> difficulty,
             keywords |-> extractKeywords(selectedQuestions[index])]]

\* A Question: its id, the length of its text, its category, its
\* difficulty and the number of its keywords
generateFallbackQuestions(count, difficulty, category) ==
    LET questionTexts == Templates[difficulty]
        selectedQuestions == Slice(questionTexts, count)
    IN  [index \in 1 .. Len(selectedQuestions) |->
            [id |-> <<"fallback", difficulty, index - 1>>,
             text |-> selectedQuestions[index].length,
             category |-> IF category = Missing THEN "Excel Fundamentals" ELSE category,
             difficulty |-> difficulty,
             keywords |-> extractKeywords(selectedQuestions[index])]]

\* What the call of the oracle comes to: no NVIDIA_API_KEY; callNvidiaAPI
\* throws; the content is no JSON; it is JSON but no array; it is a JSON
\* array of some questions
GenerationOutcomes ==
    {[kind |-> k, length |-> 0] : k \in {"noKey", "throws", "malformed", "notArray"}}
    \cup {[kind |-> "array", length |-> n] : n \in 0 .. MaxCount}

\* parseGenerationResponse falling back on the templates
parseGenerationResponseFallingBack(outcome, difficulty) ==
    IF outcome.kind \in {"malformed", "notArray"}
    THEN generateFallbackQuestions(MaxCount, difficulty, Missing)
    ELSE [index \in 1 .. outcome.length |->
             [id |-> <<"excel", difficulty, index - 1>>,
              text |-> 1,
              category |-> "Excel Fundamentals",
              difficulty |-> difficulty,
              keywords |-> 0]]

\* parseGenerationResponse, the questions of the array taken as complete
parseGenerationResponse(outcome, difficulty) ==
    IF outcome.kind \in {"malformed", "notArray"} THEN <<>>
    ELSE [index \in 1 .. outcome.length |->
             [id |-> <<"excel", difficulty, index - 1>>,
              text |-> 1,
              category |-> "Excel Fundamentals",
              difficulty |-> difficulty,
              keywords |-> 0]]

\* NvidiaAdapter.generateQuestions
generateQuestions(outcome) ==
    /\ generator.pc = "generateQuestions"
    /\ generator' = [generator EXCEPT
           !.pc = "returned",
           !.outcome = outcome.kind,
           !.questions = IF outcome.kind \in {"noKey", "throws"}
                         THEN generateFallbackQuestions(generator.count, generator.difficulty,
                                                        generator.category)
                         ELSE parseGenerationResponse(outcome, generator.difficulty)]
    /\ report' = NoReport
    /\ UNCHANGED <<manager, stt, app, evaluator, sessions, now, result, callbacks, pending>>

\* createSession from the return of generateQuestions on
createSessionResume(sessionId) ==
    /\ generator.pc = "returned"
    /\ LET generated == [index \in 1 .. Len(generator.questions) |-> index]
       IN  /\ result' = createSessionBody(sessionId, generated).result
           /\ sessions' = createSessionBody(sessionId, generated).sessions
    /\ generator' = [generator EXCEPT !.pc = "createSession"]
    /\ report' = NoReport
    /\ UNCHANGED <<manager, stt, app, evaluator, now, callbacks, pending>>

InitGenerator ==
    /\ manager = "SessionManager"
    /\ stt = Off
    /\ app = Off
    /\ sessions = <<>>
    /\ now = 0
    /\ result = "ok"
    /\ callbacks = <<>>
    /\ pending = [k \in Slots |-> Idle]
    /\ evaluator = Off
    /\ report = NoReport
    /\ \E count \in 0 .. MaxCount, difficulty \in Difficulties, category \in Categories :
          generator = [pc |-> "generateQuestions",
                       count |-> count,
                       difficulty |-> difficulty,
                       category |-> category,
                       outcome |-> "none",
                       questions |-> <<>>]

NextGenerator ==
    \/ \E outcome \in GenerationOutcomes : generateQuestions(outcome)
    \/ \E id \in OneId : createSessionResume(id)

SpecGenerator == InitGenerator /\ [][NextGenerator]_vars

----------------------------------------------------------------------------
(* SessionManager alone, its methods called in any order on two session    *)
(* ids, the clock standing still and Math.random() at its least in the     *)
(* reports                                                                 *)

InitSessions ==
    /\ manager = "SessionManager"
    /\ stt = Off
    /\ app = Off
    /\ sessions = <<>>
    /\ now = 0
    /\ result = "ok"
    /\ callbacks = <<>>
    /\ pending = [k \in Slots |-> Idle]
    /\ evaluator = Off
    /\ report = NoReport
    /\ generator = Off

NextSessions ==
    \/ \E id \in SessionIds, generated \in GeneratedQuestions : createSession(id, generated)
    \/ \E id \in SessionIds : getSession(id)
    \/ \E id \in SessionIds, q \in QuestionIds : addAnswer(id, q)
    \/ \E id \in SessionIds : evaluateCurrentAnswer(id)
    \/ \E id \in SessionIds, random \in PlaceholderScores : moveToNextQuestion(id, random)
    \/ \E id \in SessionIds, placeholders \in LeastPlaceholders : getSessionReport(id, placeholders)
    \/ \E id \in SessionIds : deleteSession(id)

SpecSessions == InitSessions /\ [][NextSessions]_vars

----------------------------------------------------------------------------
(* The front-end STTService (components/STTService.ts) over a              *)
(* BrowserSTTProvider or a MockSTTProvider.  A call of startListening runs *)
(* to its end before the next timer, recognition event or click is served: *)
(* its two awaits are on promises that are already settled.  The browser's *)
(* SpeechRecognition object is the environment: start() throws on an       *)
(* object that is not idle, and its events come in the order start,        *)
(* result*, [error], end.                                                   *)

MaxTimers == 2          \* setTimeout callbacks of the mock provider waiting at once

Providers == {"BrowserSTTProvider", "MockSTTProvider"}
Transcripts == {"final", "interim", "none"}     \* what one result event carries

\* The other fields of the other specifications stand still
STTFrame == UNCHANGED <<manager, sessions, now, callbacks, pending, evaluator, generator, report, app>>

\* provider.isListening() of the provider the service holds
STTIsListening(s) ==
    IF s.provider = "MockSTTProvider" THEN s.mockListening ELSE s.listening

\* BrowserSTTProvider.isSupported: !!this.recognition
BrowserIsSupported(s) == s.recognition # "none"

\* recognition.stop() as the browser takes it
RecognitionStop(recognition) ==
    IF recognition \in {"starting", "started"} THEN "stopping" ELSE recognition

\* BrowserSTTProvider.stopListening
BrowserStopListening(s) ==
    IF BrowserIsSupported(s) /\ s.listening
    THEN [s EXCEPT !.recognition = RecognitionStop(s.recognition)]
    ELSE s

\* BrowserSTTProvider.startListening: the provider after the call and the
\* message of the Error it threw, "ok" if it threw none
BrowserStartListening(s) ==
    IF ~BrowserIsSupported(s)
    THEN [stt |-> s, thrown |-> "Speech recognition not supported"]
    ELSE LET stopped == IF s.listening THEN BrowserStopListening(s) ELSE s
         IN  IF stopped.recognition # "idle"
             THEN [stt |-> stopped, thrown |-> "Failed to start speech recognition"]
             ELSE [stt |-> [stopped EXCEPT !.recognition = "starting"], thrown |-> "ok"]

\* MockSTTProvider.startListening: never throws, leaves one timer behind
MockStartListening(s) ==
    [s EXCEPT !.mockListening = TRUE, !.timers = s.timers + 1]

\* The callback setupProviderCallbacks gives a provider, called with a text:
\* resultHandlers.forEach(handler => handler(text, isFinal))
DeliverResult(s) ==
    IF s.registered THEN [s EXCEPT !.delivered = TRUE] ELSE s

\* STTService.startListening
STTStartListening ==
    /\ stt.timers < MaxTimers
    /\ LET called == [stt EXCEPT !.delivered = FALSE]
       IN  IF called.provider = "MockSTTProvider"
           THEN /\ stt' = [MockStartListening(called) EXCEPT !.started = "resolved"]
                /\ result' = "ok"
           ELSE LET browser == BrowserStartListening(called)
                IN  IF browser.thrown = "ok"
                    THEN /\ stt' = [browser.stt EXCEPT !.started = "resolved"]
                         /\ result' = "ok"
                    ELSE /\ stt' = [MockStartListening(
                                        [browser.stt EXCEPT !.provider = "MockSTTProvider"])
                                    EXCEPT !.started = "rejected"]
                         /\ result' = browser.thrown
    /\ STTFrame

\* STTService.stopListening
STTStopListening ==
    /\ stt' = IF stt.provider = "MockSTTProvider"
              THEN [stt EXCEPT !.mockListening = FALSE]
              ELSE BrowserStopListening(stt)
    /\ result' = "ok"
    /\ STTFrame

\* STTService.onResult(callback), and the function it returns
STTOnResult ==
    /\ ~stt.registered
    /\ stt' = [stt EXCEPT !.registered = TRUE]
    /\ result' = "ok"
    /\ STTFrame

STTUnsubscribe ==
    /\ stt.registered
    /\ stt' = [stt EXCEPT !.registered = FALSE]
    /\ result' = "ok"
    /\ STTFrame

\* The callback of the mock provider's setTimeout
MockTimeout ==
    /\ stt.timers > 0
    /\ LET fired == [stt EXCEPT !.timers = stt.timers - 1]
       IN  stt' = IF fired.mockListening
                  THEN [DeliverResult(fired) EXCEPT !.mockListening = FALSE]
                  ELSE fired
    /\ UNCHANGED result
    /\ STTFrame

\* recognition.onstart
RecognitionOnStart ==
    /\ stt.recognition = "starting"
    /\ stt' = [stt EXCEPT !.recognition = "started", !.listening = TRUE]
    /\ UNCHANGED result
    /\ STTFrame

\* recognition.onresult
RecognitionOnResult(transcript) ==
    /\ stt.recognition \in {"started", "stopping"}
    /\ stt' = IF transcript = "none" THEN stt ELSE DeliverResult(stt)
    /\ UNCHANGED result
    /\ STTFrame

\* recognition.onerror; the end event follows
RecognitionOnError ==
    /\ stt.recognition \in {"starting", "started"}
    /\ stt' = [stt EXCEPT !.recognition = "stopping", !.listening = FALSE]
    /\ UNCHANGED result
    /\ STTFrame

\* recognition.onend
RecognitionOnEnd ==
    /\ stt.recognition \in {"started", "stopping"}
    /\ stt' = [stt EXCEPT !.recognition = "idle", !.listening = FALSE]
    /\ UNCHANGED result
    /\ STTFrame

\* new STTService(provider?), in a browser with or without SpeechRecognition
InitSTT ==
    /\ manager = "STTService"
    /\ sessions = <<>>
    /\ now = 0
    /\ result = "ok"
    /\ callbacks = <<>>
    /\ pending = [k \in Slots |-> Idle]
    /\ evaluator = Off
    /\ generator = Off
    /\ report = NoReport
    /\ app = Off
    /\ \E provider \in Providers, recognition \in {"none", "idle"} :
          /\ provider = "MockSTTProvider" => recognition = "none"
          /\ stt = [provider |-> provider,
                    recognition |-> recognition,
                    listening |-> FALSE,
                    mockListening |-> FALSE,
                    timers |-> 0,
                    registered |-> FALSE,
                    delivered |-> FALSE,
                    started |-> "none"]

NextSTT ==
    \/ STTStartListening
    \/ STTStopListening
    \/ STTOnResult
    \/ STTUnsubscribe
    \/ MockTimeout
    \/ RecognitionOnStart
    \/ \E transcript \in Transcripts : RecognitionOnResult(transcript)
    \/ RecognitionOnError
    \/ RecognitionOnEnd

SpecSTT == InitSTT /\ [][NextSTT]_vars

----------------------------------------------------------------------------
(* The front-end App (App.tsx): the session reducer, the state of the      *)
(* AnswerInput component and the two api calls that can be in flight.  An  *)
(* async handler keeps the `state` of the render it was created in across  *)
(* its await; a click is served by the handlers of the latest render.      *)

SampleLength == 3       \* sampleQuestions.length
MaxSubmits == 2         \* handleSubmit is not called once state.answers is this long

sampleQuestions == [index \in 1 .. SampleLength |-> index]

\* What api.submitAnswer resolves to: isCorrect, and a followUp only when
\* the answer is not correct
SubmitResults ==
    {[isCorrect |-> TRUE, followUp |-> FALSE],
     [isCorrect |-> FALSE, followUp |-> TRUE],
     [isCorrect |-> FALSE, followUp |-> FALSE]}

NoSubmit == [pc |-> "idle", currentQuestionIndex |-> 0, questions |-> <<>>, questionId |-> 0]

AppFrame == UNCHANGED <<manager, sessions, now, result, callbacks, pending, evaluator, generator,
                        report, stt>>

\* The reducer of React.useReducer
reducer(state, type, payload) ==
    CASE type = "START_SESSION" ->
            [state EXCEPT !.sessionId = payload,
                          !.questions = sampleQuestions,
                          !.currentQuestionIndex = 0,
                          !.answers = <<>>,
                          !.isLoading = FALSE]
      [] type = "ADD_ANSWER" -> [state EXCEPT !.answers = Append(state.answers, payload)]
      [] type = "NEXT_QUESTION" ->
            [state EXCEPT !.currentQuestionIndex = state.currentQuestionIndex + 1]
      [] type = "SET_LOADING" -> [state EXCEPT !.isLoading = payload]
      [] OTHER -> state

\* InterviewView renders AnswerInput while state.questions has a current question
AnswerInputShown ==
    /\ app.view = "interview"
    /\ app.state.currentQuestionIndex < Len(app.state.questions)

\* handleStartInterview, up to its await
handleStartInterview ==
    /\ app.view = "home"
    /\ ~app.state.isLoading
    /\ app' = [app EXCEPT !.state = reducer(app.state, "SET_LOADING", TRUE),
                          !.creating = TRUE]
    /\ AppFrame

\* handleStartInterview, after api.createSession resolved
handleStartInterviewResume ==
    /\ app.creating
    /\ app' = [app EXCEPT !.state = reducer(app.state, "START_SESSION", "session"),
                          !.view = "interview",
                          !.creating = FALSE]
    /\ AppFrame

\* setAnswer from the textarea, the transcript or an uploaded file: the
\* text is blank or not
setAnswer(filled) ==
    /\ AnswerInputShown
    /\ app.answer # filled
    /\ app' = [app EXCEPT !.answer = filled]
    /\ AppFrame

\* AnswerInput.handleSubmit, up to its await; the button is disabled on a
\* blank answer and while isSubmitting
handleSubmit ==
    /\ AnswerInputShown
    /\ app.answer /\ ~app.isSubmitting
    /\ app.state.sessionId # "null"
    /\ Len(app.state.answers) < MaxSubmits
    /\ app' = [app EXCEPT !.isSubmitting = TRUE,
                          !.submit = [pc |-> "awaiting",
                                      currentQuestionIndex |-> app.state.currentQuestionIndex,
                                      questions |-> app.state.questions,
                                      questionId |-> app.state.questions[
                                                        app.state.currentQuestionIndex + 1]]]
    /\ AppFrame

\* AnswerInput.handleSubmit, after api.submitAnswer resolved: `state` is
\* the one of the render the click was made in
handleSubmitResume(submitResult) ==
    /\ app.submit.pc = "awaiting"
    /\ LET state == app.submit
           newAnswer == [questionId |-> state.questionId,
                         isCorrect |-> submitResult.isCorrect,
                         followUp |-> submitResult.followUp]
           added == reducer(app.state, "ADD_ANSWER", newAnswer)
       IN  app' = IF submitResult.followUp
                  THEN [app EXCEPT !.state = added,
                                   !.followUp = TRUE,
                                   !.isSubmitting = FALSE,
                                   !.submit = NoSubmit]
                  ELSE IF /\ submitResult.isCorrect
                          /\ state.currentQuestionIndex < Len(state.questions) - 1
                  THEN [app EXCEPT !.state = reducer(added, "NEXT_QUESTION", FALSE),
                                   !.answer = FALSE,
                                   !.followUp = FALSE,
                                   !.isSubmitting = FALSE,
                                   !.submit = NoSubmit]
                  ELSE [app EXCEPT !.state = added,
                                   !.isSubmitting = FALSE,
                                   !.submit = NoSubmit]
    /\ AppFrame

\* onClick of the Skip Question button, disabled on the last question
SkipQuestion ==
    /\ AnswerInputShown
    /\ app.state.currentQuestionIndex < Len(app.state.questions) - 1
    /\ app' = [app EXCEPT !.state = reducer(app.state, "NEXT_QUESTION", FALSE),
                          !.answer = FALSE,
                          !.followUp = FALSE]
    /\ AppFrame

InitApp ==
    /\ manager = "App"
    /\ sessions = <<>>
    /\ now = 0
    /\ result = "ok"
    /\ callbacks = <<>>
    /\ pending = [k \in Slots |-> Idle]
    /\ evaluator = Off
    /\ generator = Off
    /\ report = NoReport
    /\ stt = Off
    /\ app = [view |-> "home",
              creating |-> FALSE,
              state |-> [currentQuestionIndex |-> 0,
                         questions |-> <<>>,
                         answers |-> <<>>,
                         sessionId |-> "null",
                         isLoading |-> FALSE],
              answer |-> FALSE,
              isSubmitting |-> FALSE,
              followUp |-> FALSE,
              submit |-> NoSubmit]

NextApp ==
    \/ handleStartInterview
    \/ handleStartInterviewResume
    \/ \E filled \in BOOLEAN : setAnswer(filled)
    \/ handleSubmit
    \/ \E submitResult \in SubmitResults : handleSubmitResume(submitResult)
    \/ SkipQuestion

SpecApp == InitApp /\ [][NextApp]_vars

----------------------------------------------------------------------------
(* Properties *)

Sessions == {sessions[id] : id \in DOMAIN sessions}

\* The step puts a new session under the id
Created(id) ==
    \/ \E generated \in GeneratedQuestions :
          createSession(id, generated) \/ initSession(id, generated) \/ postSessions(id, generated)
    \/ \E questionIds \in RequestedIds : LegacyCreateSession(id, questionIds)

\* The step is one call of moveToNextQuestion on the session
Advances(id) ==
    \/ \E random \in PlaceholderScores : moveToNextQuestion(id, random)
    \/ \E k \in Slots, random \in PlaceholderScores :
          pending[k].pc = "moveToNextQuestion" /\ pending[k].sessionId = id /\ postAnswerMove(k, random)
    \/ submitAnswer(id)
    \/ \E k \in Slots, score \in EvaluationScores :
          pending[k].pc = "evaluating" /\ pending[k].sessionId = id /\ submitAnswerResume(k, score)
    \/ forceNextQuestion(id)
    \/ LegacyMoveToNextQuestion(id)

C2_MismatchRejected ==
    [][/\ \A id \in SessionIds, q \in QuestionIds :
            ( /\ Has(id)
              /\ CurrentQuestion(sessions[id]) # q
              /\ addAnswer(id, q) \/ LegacyAddAnswer(id, q) )
            => (result' = "Question mismatch" /\ sessions' = sessions)
       /\ \A k \in Slots :
            ( /\ pending[k].pc = "addAnswer"
              /\ postAnswerAddAnswer(k)
              /\ CurrentQuestion(sessions[pending[k].sessionId]) # pending[k].question )
            => (result' = "500" /\ sessions' = sessions)
      ]_vars

\* A mismatching addAnswer has failed on a session that has answers
C2_Witness ==
    /\ manager = "SessionManager"
    /\ result = "Question mismatch"
    /\ \E session \in Sessions : Len(session.answers) >= 1

\* C3: in every session the Nth answer recorded for a questionId has
\* attempt = N: its attempt is 1 plus the number of answers to the same
\* questionId before it.
C3_AttemptNumbering ==
    \A session \in Sessions :
        \A i \in 1 .. Len(session.answers) :
            session.answers[i].attempt =
                Cardinality({j \in 1 .. i :
                    session.answers[j].questionId = session.answers[i].questionId})

\* submitAnswer has recorded a third answer to one question
C3_Witness ==
    /\ manager = "SessionLifecycleManager"
    /\ \E session \in Sessions :
          \E i \in 1 .. Len(session.answers) : session.answers[i].attempt = MaxAttempts

\* C4: a session is completed once: a call that finds the session completed
\* and leaves it completed changes neither completedAt nor overallScore.
C4_CompletedOnce ==
    [][\A id \in DOMAIN sessions \cap DOMAIN sessions' :
          (sessions[id].status = "completed" /\ sessions'[id].status = "completed")
          => /\ sessions'[id].completedAt = sessions[id].completedAt
             /\ sessions'[id].overallScore = sessions[id].overallScore
      ]_vars

\* The evaluation scores a session has recorded: the earlier SessionManager
\* keeps them in evaluations, the other classes keep none
RecordedScores(session) ==
    IF "evaluations" \in DOMAIN session THEN session.evaluations ELSE <<>>

\* The mean rounded as Math.round rounds, 0 for no scores
RoundedMean(scores) ==
    IF Len(scores) = 0 THEN 0
    ELSE (2 * SumSeq(scores) + Len(scores)) \div (2 * Len(scores))

\* C5: in the step that completes a session its overallScore becomes the
\* rounded mean of the evaluation scores recorded for it, 0 if there are none.
C5_OverallScoreIsMean ==
    [][\A id \in DOMAIN sessions \cap DOMAIN sessions' :
          (sessions[id].status # "completed" /\ sessions'[id].status = "completed")
          => sessions'[id].overallScore = RoundedMean(RecordedScores(sessions'[id]))
      ]_vars

\* C6: addAnswer on a session that is not in progress fails with
\* SessionNotActive and appends nothing, also when the questionId is that
\* of the question at currentQuestionIndex.
C6_InactiveRejected ==
    [][\A id \in SessionIds, q \in QuestionIds :
          ( /\ addAnswer(id, q)
            /\ Has(id)
            /\ sessions[id].status # "in_progress"
            /\ CurrentQuestion(sessions[id]) = q )
          => (result' = "Session not active" /\ sessions' = sessions)
      ]_vars

\* C7: the currentQuestionIndex of a session changes only by + 1, in a step
\* that is one call of moveToNextQuestion; no other operation changes it.
C7_IndexStepsByOne ==
    [][\A id \in DOMAIN sessions \cap DOMAIN sessions' :
          \/ sessions'[id].currentQuestionIndex = sessions[id].currentQuestionIndex
          \/ Created(id)
          \/ /\ sessions'[id].currentQuestionIndex = sessions[id].currentQuestionIndex + 1
             /\ Advances(id)
      ]_vars

\* A session was advanced, and then took an answer to its new question
C7_Witness ==
    \E session \in Sessions :
        /\ session.currentQuestionIndex >= 1
        /\ \E i \in 1 .. Len(session.answers) :
              session.answers[i].questionId = CurrentQuestion(session)
        /\ \E i \in 1 .. Len(session.answers) :
              session.answers[i].questionId # CurrentQuestion(session)

\* C8: in every session completedAt is set iff overallScore is set iff the
\* status is completed.
C8_CompletedFieldsTogether ==
    \A session \in Sessions :
        /\ (session.completedAt # Undefined) <=> (session.status = "completed")
        /\ (session.overallScore # Undefined) <=> (session.status = "completed")

\* A SessionLifecycleManager session completed with the score 0, which
\* getReport takes for a missing one
C8_Witness ==
    /\ manager = "SessionLifecycleManager"
    /\ \E session \in Sessions :
          /\ session.status = "completed"
          /\ session.overallScore = 0
          /\ session.completedAt # Undefined

\* The answers can be laid on the questions in order: each on a question
\* with its questionId, none before the one of the answer before it, none
\* beyond the current question
OrderedAnswers(session) ==
    \E f \in [1 .. Len(session.answers) -> 1 .. Len(session.questions)] :
        /\ \A i \in 1 .. Len(session.answers) :
              /\ session.questions[f[i]] = session.answers[i].questionId
              /\ f[i] <= session.currentQuestionIndex + 1
        /\ \A i, j \in 1 .. Len(session.answers) : i <= j => f[i] <= f[j]

\* C9: an answer is appended with the questionId of the question at
\* currentQuestionIndex at that moment, so the answers of a session are in
\* the order of its questions, also when requests to the answer route
\* interleave.
C9_AnswersInQuestionOrder ==
    /\ [](\A session \in Sessions : OrderedAnswers(session))
    /\ [][\A id \in DOMAIN sessions \cap DOMAIN sessions' :
             Len(sessions'[id].answers) > Len(sessions[id].answers)
             => /\ sessions'[id].answers =
                       Append(sessions[id].answers,
                              sessions'[id].answers[Len(sessions'[id].answers)])
                /\ sessions'[id].answers[Len(sessions'[id].answers)].questionId =
                       CurrentQuestion(sessions[id])
         ]_vars

\* A request to the answer route is about to call addAnswer with the
\* question it read before another request answered it and moved on
C9_Witness ==
    \E k \in Slots :
        /\ pending[k].pc = "addAnswer"
        /\ Has(pending[k].sessionId)
        /\ pending[k].question # CurrentQuestion(sessions[pending[k].sessionId])
        /\ sessions[pending[k].sessionId].currentQuestionIndex >= 1
        /\ Len(sessions[pending[k].sessionId].answers) >= 1

\* C10: when the source of the questions returns none, createSession fails
\* and the Map is as it was.
C10_NoQuestionsNoSession ==
    [][\A id \in SessionIds :
          ( \/ createSession(id, <<>>)
            \/ initSession(id, <<>>)
            \/ postSessions(id, <<>>)
            \/ \E questionIds \in RequestedIds :
                  SelectedQuestions(questionIds) = <<>> /\ LegacyCreateSession(id, questionIds) )
          => (result' \notin {"ok", "201"} /\ sessions' = sessions)
      ]_vars

\* C11: after a successful createSession the session stored under the new
\* id, the one getSession returns, has currentQuestionIndex 0, no answers,
\* status in_progress, no completedAt, no overallScore, and the question
\* list the generator returned.
C11_FreshSession ==
    [][\A id \in SessionIds, generated \in GeneratedQuestions :
          ( /\ createSession(id, generated) \/ postSessions(id, generated)
            /\ Len(generated) > 0 )
          => /\ result' \in {"ok", "201"}
             /\ id \in DOMAIN sessions'
             /\ sessions'[id].questions = generated
             /\ sessions'[id].currentQuestionIndex = 0
             /\ sessions'[id].answers = <<>>
             /\ sessions'[id].status = "in_progress"
             /\ sessions'[id].startedAt = now
             /\ sessions'[id].completedAt = Undefined
             /\ sessions'[id].overallScore = Undefined
      ]_vars

\* createSession has stored a session at the last tick of the clock
C11_Witness ==
    /\ manager = "SessionManager"
    /\ result = "ok"
    /\ now = MaxTime
    /\ \E session \in Sessions :
          /\ session.startedAt = MaxTime
          /\ session.answers = <<>>
          /\ session.currentQuestionIndex = 0
          /\ Len(session.questions) = MaxQuestions


\* The oracle's failures: no credentials, a thrown error or an empty
\* response, a response that is no JSON, a JSON value of the wrong shape
OracleFailures == {"noKey", "throws", "malformed", "null", "scalar"}

\* C12: evaluateAnswer never raises, and whenever the oracle failed, the
\* result it returns has the score and the pass flag of the length and
\* keyword fallback formula.
C12_FailureGivesFallback ==
    /\ evaluator.pc # "thrown"
    /\ ( /\ evaluator.pc = "returned"
         /\ evaluator.outcome \in OracleFailures )
       => LET fallback == fallbackEvaluation(evaluator.question, evaluator.answer)
          IN  /\ evaluator.result.score = fallback.score
              /\ evaluator.result.pass = fallback.pass


\* The evaluation has ended, by a return or by an exception
Ended == evaluator.pc \in {"returned", "thrown"}

\* The deterministic aggregate of the evaluation under way
Aggregate == deterministicScore(evaluator.question, evaluator.answer)

\* C13: with a deterministic aggregate of 85 or more the result is a pass
\* with the aggregate as score and no follow-ups, and the oracle adapter is
\* never entered; with a lower aggregate the evaluation ends only after the
\* oracle adapter was entered.
C13_ShortCircuit ==
    /\ Aggregate >= 85 =>
          /\ evaluator.outcome = "none"
          /\ evaluator.oracleCalls = 0
          /\ evaluator.pc \in {"evaluateAnswer", "returned"}
          /\ evaluator.pc = "returned" =>
                evaluator.result = EvaluationResult(Aggregate, TRUE, 0)
    /\ (Aggregate < 85 /\ Ended) => evaluator.outcome # "none"

C13_Witness ==
    /\ evaluator.pc = "returned"
    /\ Aggregate >= 85
    /\ Aggregate < 100
    /\ evaluator.result.pass
    /\ evaluator.result.score = Aggregate


\* C14: a result returned on the oracle path has the larger of the
\* deterministic aggregate and the oracle's score as its score, passes
\* exactly when that score is at least 60, whatever pass flag the oracle
\* reported, and has at most 3 follow-ups.
C14_OraclePathCombines ==
    (evaluator.pc = "returned" /\ evaluator.outcome # "none") =>
        /\ evaluator.result.score >= Aggregate
        /\ evaluator.result.score >= evaluator.llmResult.score
        /\ evaluator.result.score \in {Aggregate, evaluator.llmResult.score}
        /\ evaluator.result.pass = (evaluator.result.score >= 60)
        /\ evaluator.result.followUps <= 3
        /\ evaluator.result.followUps <= evaluator.llmResult.followUps

C14_Witness ==
    /\ evaluator.pc = "returned"
    /\ evaluator.outcome = "object"
    /\ ~evaluator.llmResult.pass
    /\ evaluator.llmResult.score < Aggregate
    /\ evaluator.llmResult.followUps > 3
    /\ evaluator.result.pass
    /\ evaluator.result.followUps = 3


\* 1 if the condition holds, else 0
Indicator(condition) == IF condition THEN 1 ELSE 0

\* C15: the fallback's score is 40, plus 20 for a length over 50, 10 for a
\* length over 100, 10 for a length over 200 and 20 for an answer holding
\* some keyword of the question, at most 100; it passes exactly from 60 on
\* and has follow-ups exactly below 70.  An answer of length 10 without a
\* keyword gets 40 and fails, one of length 220 with one keyword gets 100
\* and passes.
C15_FallbackFormula ==
    evaluator.outcome \in {"noKey", "throws"} =>
        LET fallback == evaluator.llmResult
            length == evaluator.answer.length
            keywords == evaluator.answer.longMatched + evaluator.answer.shortMatched
            sum == 40 + 20 * Indicator(length > 50) + 10 * Indicator(length > 100)
                      + 10 * Indicator(length > 200) + 20 * Indicator(keywords > 0)
        IN  /\ fallback.score = (IF sum > 100 THEN 100 ELSE sum)
            /\ fallback.pass = (fallback.score >= 60)
            /\ (fallback.followUps > 0) = (fallback.score < 70)
            /\ (length = 10 /\ keywords = 0) => (fallback.score = 40 /\ ~fallback.pass)
            /\ (length = 220 /\ keywords = 1) => (fallback.score = 100 /\ fallback.pass)

C15_Witness ==
    /\ evaluator.outcome = "throws"
    /\ evaluator.answer.length = 220
    /\ evaluator.answer.longMatched + evaluator.answer.shortMatched = 1
    /\ evaluator.llmResult.score = 100
    /\ evaluator.llmResult.pass
    /\ evaluator.llmResult.followUps = 0


\* The answer holds every keyword of the question, every formula word and
\* at least 5 numbers
HoldsEveryKeyword ==
    /\ evaluator.answer.longMatched = evaluator.question.longKeywords
    /\ evaluator.answer.shortMatched = evaluator.question.shortKeywords
    /\ evaluator.answer.formulaTerms = 11
    /\ evaluator.answer.numbers >= 5

\* It holds every word of the expected answer that counts, too, and the
\* question has a word that counts
HoldsEveryRubricWord ==
    /\ HoldsEveryKeyword
    /\ evaluator.answer.expectedMatched = evaluator.question.expectedWords
    /\ evaluator.question.longKeywords + evaluator.question.expectedWords > 0

\* The evaluation has not gone past the early return
ShortCircuited ==
    /\ evaluator.pc \in {"evaluateAnswer", "returned"}
    /\ evaluator.outcome = "none"
    /\ evaluator.oracleCalls = 0

\* C16 as stated: an answer holding every keyword of the question, every
\* formula word and at least 5 numbers gets the score 100 by the early
\* return, without the oracle.
C16_EveryKeywordGivesMaximum ==
    HoldsEveryKeyword =>
        /\ ShortCircuited
        /\ evaluator.pc = "returned" => evaluator.result.score = 100

\* C16 amended: an answer holding every keyword and every expected-answer
\* word longer than 3 characters of a question that has one, every formula
\* word and at least 5 numbers gets an aggregate of at least 95, and of 100
\* from 10 numbers on; it is returned as a pass with that score by the
\* early return, without the oracle.
C16_EveryRubricWordShortCircuits ==
    HoldsEveryRubricWord =>
        /\ Aggregate >= 95
        /\ evaluator.answer.numbers >= 10 => Aggregate = 100
        /\ ShortCircuited
        /\ evaluator.pc = "returned" =>
              evaluator.result = EvaluationResult(Aggregate, TRUE, 0)

C16_Witness ==
    /\ HoldsEveryRubricWord
    /\ evaluator.question.expectedWords > 0
    /\ evaluator.question.longKeywords > 0
    /\ evaluator.answer.numbers = 5
    /\ evaluator.pc = "returned"
    /\ evaluator.result.score = 95


\* C17: every result evaluateAnswer returns has a score from 0 to 100,
\* whatever the oracle returned.
C17_ScoreInRange ==
    evaluator.pc = "returned" => evaluator.result.score \in 0 .. 100


\* The number of requests of p that are at pc
At(p, pc) == Cardinality({k \in Slots : p[k].pc = pc})

\* The number of requests of p under way
Busy(p) == Cardinality({k \in Slots : p[k].pc # "idle"})

\* C18: a request of the submit-answer route that leaves the evaluation
\* goes on to moveToNextQuestion exactly when its evaluation has pass =
\* true or a score of at least 60,
\* and then moveToNextQuestion steps the session once and the request
\* ends; otherwise the request ends with the session as it was, the answer
\* still recorded.
C18_AdvanceIffPassing ==
    [][ /\ At(pending', "evaluateAnswer") < At(pending, "evaluateAnswer") =>
              \A k \in Slots, evaluation \in Evaluations :
                  postAnswerEvaluated(k, evaluation) =>
                      /\ sessions' = sessions
                      /\ Has(pending[k].sessionId)
                      /\ CountAnswers(sessions'[pending[k].sessionId].answers, pending[k].question) > 0
                      /\ IF evaluation.pass \/ evaluation.score >= 60
                         THEN /\ At(pending', "moveToNextQuestion") = At(pending, "moveToNextQuestion") + 1
                              /\ Busy(pending') = Busy(pending)
                         ELSE /\ At(pending', "moveToNextQuestion") = At(pending, "moveToNextQuestion")
                              /\ Busy(pending') = Busy(pending) - 1
                              /\ result' = "200"
        /\ At(pending', "moveToNextQuestion") > At(pending, "moveToNextQuestion") =>
              \E k \in Slots, evaluation \in Evaluations :
                  /\ postAnswerEvaluated(k, evaluation)
                  /\ evaluation.pass \/ evaluation.score >= 60
        /\ At(pending', "moveToNextQuestion") < At(pending, "moveToNextQuestion") =>
              \A k \in Slots, random \in PlaceholderScores :
                  (pending[k].pc = "moveToNextQuestion" /\ postAnswerMove(k, random)) =>
                      LET id == pending[k].sessionId
                      IN  /\ Busy(pending') = Busy(pending) - 1
                          /\ result' = "200"
                          /\ \/ /\ sessions'[id].currentQuestionIndex = sessions[id].currentQuestionIndex + 1
                                /\ sessions'[id].status = sessions[id].status
                             \/ /\ sessions'[id].currentQuestionIndex = sessions[id].currentQuestionIndex
                                /\ sessions'[id].currentQuestionIndex = Len(sessions[id].questions) - 1
                                /\ sessions'[id].status = "completed"
      ]_vars

\* A failed answer was followed by a second answer to the same question,
\* which failed, too
C18_Witness ==
    /\ manager = "api"
    /\ result = "200"
    /\ Busy(pending) = 0
    /\ \E session \in Sessions :
          /\ session.status = "in_progress"
          /\ session.currentQuestionIndex = 0
          /\ Len(session.answers) = 2
          /\ \A i \in 1 .. 2 : session.answers[i].questionId = CurrentQuestion(session)


\* C19: through the submit-answer route no session comes to hold more than
\* 3 answers to one question, and the request that recorded the third
\* answer to a question goes on to moveToNextQuestion whatever its
\* evaluation.
C19_ThreeAttemptsAtMost ==
    /\ [](manager = "api" =>
             \A session \in Sessions, q \in QuestionIds :
                 CountAnswers(session.answers, q) <= 3)
    /\ [][\A k \in Slots, evaluation \in Evaluations :
              ( /\ postAnswerEvaluated(k, evaluation)
                /\ CountAnswers(sessions[pending[k].sessionId].answers, pending[k].question) >= 3 )
              => At(pending', "moveToNextQuestion") = At(pending, "moveToNextQuestion") + 1]_vars


\* The step is one sweep
Sweeps == cleanupExpiredSessions \/ LegacyCleanupExpiredSessions

\* The hours since the session was started
HoursSinceStarted(id) ==
    IF manager = "LegacySessionManager"
    THEN (now - sessions[id].createdAt) * HoursPerTick
    ELSE (now - sessions[id].startedAt) * HoursPerTick

\* The thresholds a caller may want: none, a day, a century
SweepThresholds == {0, 24, 876000}

\* The session was started more than maxAgeHours ago; every stored session
\* was started some time ago
OlderThan(id, maxAgeHours) ==
    maxAgeHours = 0 \/ HoursSinceStarted(id) > maxAgeHours

\* C20 as stated: for the threshold given, the sweep removes the sessions
\* started longer ago than the threshold and no other: all of them for 0
\* hours, none for a very large threshold.
C20_SweepByThreshold ==
    [][\A maxAgeHours \in SweepThresholds :
          Sweeps =>
              /\ DOMAIN sessions' = {id \in DOMAIN sessions : ~OlderThan(id, maxAgeHours)}
              /\ \A id \in DOMAIN sessions' : sessions'[id] = sessions[id]]_vars

\* What the sweep does: it takes no threshold, and removes the sessions
\* started more than 24 hours ago, whatever their status, and no other.
SweepAfterADay ==
    [][Sweeps =>
          /\ DOMAIN sessions' = {id \in DOMAIN sessions : HoursSinceStarted(id) <= 24}
          /\ \A id \in DOMAIN sessions' : sessions'[id] = sessions[id]]_vars


\* The Map holds what the store holds under every id but this one
KeepsOthers(map, id) ==
    \A other \in DOMAIN sessions \ {id} :
        /\ other \in DOMAIN map
        /\ map[other] = sessions[other]

\* What the methods that write through updateSession or sessions.set would
\* leave of the other sessions, called for the session id here
WritersKeepOthers(id) ==
    /\ \A generated \in GeneratedQuestions :
          KeepsOthers(createSessionBody(id, generated).sessions, id)
    /\ \A q \in QuestionIds :
          KeepsOthers(addAnswerBody(id, q).sessions, id)
    /\ \A random \in PlaceholderScores :
          KeepsOthers(moveToNextQuestionBody(id, random).sessions, id)

\* The step is a call of one of the other methods for the session id
CalledFor(id) ==
    \/ evaluateCurrentAnswer(id)
    \/ \E placeholders \in ReportPlaceholders : getSessionReport(id, placeholders)
    \/ deleteSession(id)

\* C21: createSession, addAnswer, evaluateCurrentAnswer, moveToNextQuestion,
\* getSessionReport and deleteSession called for one session id leave every
\* stored session of another id in the store and as it was: in every state
\* for whatever createSession, addAnswer and moveToNextQuestion would write,
\* and in every step that is a call of one of the other three.
C21_OtherSessionsUntouched ==
    /\ [](manager = "SessionManager" => \A id \in SessionIds : WritersKeepOthers(id))
    /\ [][\A id \in SessionIds : KeepsOthers(sessions', id) \/ ~CalledFor(id)]_vars

\* Two sessions side by side, one completed after an answer, the other
\* under way with an answer of its own
C21_Witness ==
    /\ DOMAIN sessions = SessionIds
    /\ \E id \in SessionIds, other \in SessionIds :
          /\ id # other
          /\ sessions[id].status = "completed"
          /\ Len(sessions[id].answers) > 0
          /\ sessions[other].status = "in_progress"
          /\ Len(sessions[other].answers) > 0
          /\ sessions[other].currentQuestionIndex > 0


\* C22: a createSession or initSession that succeeds stores its session
\* under an id no stored session has: every stored session stays as it
\* was, and the store has one session more.
C22_FreshIdentifier ==
    [][\A id \in SessionIds, generated \in GeneratedQuestions :
          ( /\ createSession(id, generated) \/ initSession(id, generated)
            /\ Len(generated) > 0 )
          => /\ id \notin DOMAIN sessions
             /\ Cardinality(DOMAIN sessions') = Cardinality(DOMAIN sessions) + 1
             /\ \A other \in DOMAIN sessions :
                   other \in DOMAIN sessions' /\ sessions'[other] = sessions[other]]_vars


\* C23: a step that does not create the session (addAnswer,
\* evaluateCurrentAnswer, moveToNextQuestion, submitAnswer,
\* forceNextQuestion, a report, a request of the routes) leaves the
\* question list of a session that stays in the store as it was.
C23_QuestionsImmutable ==
    [][\A id \in DOMAIN sessions \cap DOMAIN sessions' :
          \/ sessions'[id].questions = sessions[id].questions
          \/ Created(id)]_vars

\* A session answered and advanced to its end, its list still whole
C23_Witness ==
    /\ manager \in {"SessionManager", "SessionLifecycleManager"}
    /\ \E session \in Sessions :
          /\ session.status = "completed"
          /\ Len(session.answers) = MaxAnswers
          /\ session.questions = [i \in 1 .. MaxQuestions |-> i]


\* The smaller of count and the number of templates of the difficulty
Available == Least(generator.count, Len(Templates[generator.difficulty]))

\* C24: when generateQuestions falls back on the templates (no key, or the
\* oracle call throws) it returns, for every category, as many questions
\* as the smaller of count and the number of templates of the difficulty;
\* each has the difficulty asked for, a text that is not empty, at most 5
\* keywords, and an id no other question of the call has.
C24_FallbackQuestions ==
    generator.outcome \in {"noKey", "throws"} =>
        /\ generator.pc \in {"returned", "createSession"}
        /\ Len(generator.questions) = Available
        /\ \A i \in 1 .. Len(generator.questions) :
              /\ generator.questions[i].difficulty = generator.difficulty
              /\ generator.questions[i].text > 0
              /\ generator.questions[i].keywords <= 5
              /\ \A j \in 1 .. Len(generator.questions) :
                    i # j => generator.questions[i].id # generator.questions[j].id

\* More questions asked for than the templates hold, under a category
\* nobody knows, and one of the texts with more than 5 words that count
C24_Witness ==
    /\ generator.outcome = "throws"
    /\ generator.count > Len(Templates[generator.difficulty])
    /\ generator.category = "Underwater Basket Weaving"
    /\ Len(generator.questions) = 5
    /\ \E i \in 1 .. 5 :
          /\ Templates[generator.difficulty][i].words > 5
          /\ generator.questions[i].keywords = 5


\* C25: when the oracle's response is no JSON or no array, generateQuestions
\* returns the empty list, not the templates, and createSession throws and
\* stores no session; when the call of the oracle throws, generateQuestions
\* returns the questions of the templates, and createSession stores a
\* session if there is one at least.
C25_ParseFailureIsHard ==
    /\ generator.outcome \in {"malformed", "notArray"} =>
          /\ generator.questions = <<>>
          /\ generator.pc = "createSession" =>
                /\ result = "Failed to generate questions for session"
                /\ sessions = <<>>
    /\ generator.outcome = "throws" =>
          /\ Len(generator.questions) = Available
          /\ \A i \in 1 .. Len(generator.questions) :
                generator.questions[i].id[1] = "fallback"
          /\ (generator.pc = "createSession" /\ Available > 0) =>
                /\ result = "ok"
                /\ \E session \in Sessions : Len(session.questions) = Available

\* createSession has thrown after a response that was no JSON, with
\* templates at hand for the count asked
C25_Witness ==
    /\ generator.pc = "createSession"
    /\ generator.outcome = "malformed"
    /\ generator.count > 0
    /\ result = "Failed to generate questions for session"
    /\ sessions = <<>>


\* C26: deleteSession raises no error; for an id that is absent, as after
\* a first deleteSession, it changes nothing; after it the id is absent
\* and the other sessions are as they were, and getSession of an absent id
\* returns null.
C26_DeleteIdempotent ==
    [][\A id \in SessionIds :
          /\ deleteSession(id) =>
                /\ result' = "ok"
                /\ id \notin DOMAIN sessions'
                /\ DOMAIN sessions' = DOMAIN sessions \ {id}
                /\ \A other \in DOMAIN sessions' : sessions'[other] = sessions[other]
                /\ id \notin DOMAIN sessions => sessions' = sessions
          /\ (getSession(id) /\ id \notin DOMAIN sessions) => result' = "null"]_vars

\* An id that is absent beside a session that is under way, after a call
\* that raised no error
C26_Witness ==
    /\ manager = "SessionManager"
    /\ result = "ok"
    /\ \E id \in SessionIds, other \in SessionIds :
          /\ id \notin DOMAIN sessions
          /\ other \in DOMAIN sessions
          /\ Len(sessions[other].answers) > 0
          /\ ENABLED deleteSession(id)


\* The scores of the evaluations the session has recorded; none in
\* services/SessionManager.ts, which keeps no EvaluationResult
RecordedEvaluations(session) ==
    IF manager = "LegacySessionManager"
    THEN {session.evaluations[i] : i \in 1 .. Len(session.evaluations)}
    ELSE {}

\* C27: in a report, a question without an answer, and so without an
\* evaluated answer, has the score 0, and the score of any other question
\* is the score of an evaluation the session has recorded, or 0 when it has
\* recorded none.
C27_BestOwnScore ==
    report # NoReport =>
        \A session \in Sessions :
            \A index \in 1 .. Len(session.questions) :
                /\ CountAnswers(session.answers, session.questions[index]) = 0
                       => report.questionScores[index] = 0
                /\ report.questionScores[index] \in RecordedEvaluations(session) \cup {0}


\* C28: whatever the interleaving of the submit-answer requests at their
\* awaits, the session is one that the requests run one after the other
\* could leave: every question the index has gone past, and every question
\* of a completed session, has a recorded answer.
C28_NoQuestionSkipped ==
    manager = "api" =>
        \A session \in Sessions :
            \A index \in 1 .. Len(session.questions) :
                (index <= session.currentQuestionIndex \/ session.status = "completed")
                    => CountAnswers(session.answers, session.questions[index]) > 0


\* A step of the submit-answer route that sends its response
AnswerResponds ==
    /\ Busy(pending') < Busy(pending)
    /\ \/ \E k \in Slots : postAnswerChecks(k)
       \/ \E k \in Slots : postAnswerAddAnswer(k)
       \/ \E k \in Slots : postAnswerEvaluate(k)
       \/ \E k \in Slots, evaluation \in Evaluations : postAnswerEvaluated(k, evaluation)
       \/ \E k \in Slots : postAnswerEvaluationThrows(k)
       \/ \E k \in Slots, random \in PlaceholderScores : postAnswerMove(k, random)

\* C29: the submit-answer, report and status routes never answer with a 5xx
\* status, whatever the state of the session when the request arrives; only
\* POST /sessions, on a failed question generation, does.
C29_NoServerErrorFromSessionErrors ==
    [][(\/ AnswerResponds
        \/ \E id \in OneId : getReportRoute(id)
        \/ \E id \in OneId : getStatusRoute(id))
           => result' # "500"]_vars


\* A step of a submit-answer request, from one await to the next
AnswerRouteStep ==
    \/ \E id \in OneId : postAnswer(id)
    \/ \E k \in Slots : postAnswerChecks(k)
    \/ \E k \in Slots : postAnswerAddAnswer(k)
    \/ \E k \in Slots : postAnswerEvaluate(k)
    \/ \E k \in Slots, evaluation \in Evaluations : postAnswerEvaluated(k, evaluation)
    \/ \E k \in Slots : postAnswerEvaluationThrows(k)
    \/ \E k \in Slots, random \in PlaceholderScores : postAnswerMove(k, random)

\* C30: through the routes a completed session is final: no step of a
\* submit-answer request, sent later or in flight when the session was
\* completed, changes its answers, currentQuestionIndex, completedAt or
\* overallScore, and none runs moveToNextQuestion on it.
C30_CompletedIsFinal ==
    [][AnswerRouteStep =>
          \A id \in DOMAIN sessions :
              sessions[id].status = "completed"
                  => /\ id \in DOMAIN sessions'
                     /\ sessions'[id].answers = sessions[id].answers
                     /\ sessions'[id].currentQuestionIndex = sessions[id].currentQuestionIndex
                     /\ sessions'[id].completedAt = sessions[id].completedAt
                     /\ sessions'[id].overallScore = sessions[id].overallScore
                     /\ ~ \E k \in Slots, random \in PlaceholderScores :
                             /\ pending[k].pc = "moveToNextQuestion"
                             /\ pending[k].sessionId = id
                             /\ postAnswerMove(k, random)]_vars


\* The callbacks of the agentic rules, and how many of them a call fired
\* How many slots hold this suspended call
Copies(p, call) == Cardinality({j \in Slots : p[j] = call})

RuleCallbacks == {"onQuestionPassed", "onFollowUpNeeded", "onRemedialNeeded"}

RulesFired(fired) == Cardinality({i \in 1 .. Len(fired) : fired[i] \in RuleCallbacks})

\* C31: a submitAnswer whose evaluation has returned fires one of the three
\* callbacks of the rules and no second: onQuestionPassed for a score of 70
\* or more, onFollowUpNeeded for 50 to 69, onRemedialNeeded below 50; the
\* session moves on (index + 1, or completed on the last question) exactly
\* for a score of 70 or more, and the question joins remedialQuestions
\* exactly for a score below 50.  (The call whose evaluation returns is no
\* longer among the pending ones.)
C31_OneRulePerEvaluation ==
    [][\A k \in Slots :
          ( /\ manager = "SessionLifecycleManager"
            /\ pending[k].pc = "evaluating"
            /\ Copies(pending', pending[k]) < Copies(pending, pending[k]) ) =>
              \A score \in EvaluationScores :
                  \/ LET id == pending[k].sessionId
                         before == sessions[id]
                         after == sessions'[id]
                     IN  /\ RulesFired(callbacks') = 1
                         /\ callbacks'[1] = IF score >= 70 THEN "onQuestionPassed"
                                            ELSE IF score >= 50 THEN "onFollowUpNeeded"
                                            ELSE "onRemedialNeeded"
                         /\ id \in DOMAIN sessions \cap DOMAIN sessions'
                         /\ score >= 70 =>
                               IF before.currentQuestionIndex < Len(before.questions) - 1
                               THEN after.currentQuestionIndex = before.currentQuestionIndex + 1
                               ELSE after.status = "completed"
                         /\ score < 70 =>
                               /\ after.currentQuestionIndex = before.currentQuestionIndex
                               /\ after.status = before.status
                         /\ after.remedialQuestions =
                               IF score < 50
                               THEN before.remedialQuestions \cup {pending[k].question}
                               ELSE before.remedialQuestions
                  \/ ~submitAnswerResume(k, score)]_vars

\* A question was answered below 50 and then passed: the session is on its
\* next question with the first in remedialQuestions
C31_Witness ==
    /\ manager = "SessionLifecycleManager"
    /\ callbacks = <<"onQuestionPassed">>
    /\ \E session \in Sessions :
          /\ session.currentQuestionIndex > 0
          /\ session.status = "in_progress"
          /\ session.remedialQuestions # {}


\* C32: in SessionLifecycleManager no attempts counter exceeds 3 and no
\* session holds more than 3 answers to one question id; a submitAnswer that
\* finds the counter of the current question at 3 records no answer, counts
\* no attempt, starts no evaluation, returns 'Max attempts reached', and
\* moves the session on: to the next question, or to completed on the last.
C32_AttemptsLimit ==
    /\ [](manager = "SessionLifecycleManager" =>
             \A session \in Sessions :
                 /\ \A q \in DOMAIN session.attempts : session.attempts[q] <= 3
                 /\ \A q \in QuestionIds : CountAnswers(session.answers, q) <= 3)
    /\ [][\A id \in DOMAIN sessions :
             ( /\ manager = "SessionLifecycleManager"
               /\ sessions[id].status = "in_progress"
               /\ CurrentQuestion(sessions[id]) # Undefined
               /\ AttemptsOf(sessions[id], CurrentQuestion(sessions[id])) = 3
               /\ submitAnswer(id) )
             => /\ result' = "Max attempts reached"
                /\ sessions'[id].answers = sessions[id].answers
                /\ sessions'[id].attempts = sessions[id].attempts
                /\ pending' = pending
                /\ IF sessions[id].currentQuestionIndex < Len(sessions[id].questions) - 1
                   THEN /\ sessions'[id].currentQuestionIndex =
                               sessions[id].currentQuestionIndex + 1
                        /\ sessions'[id].status = "in_progress"
                   ELSE sessions'[id].status = "completed"]_vars

\* A fourth submitAnswer on the first question has moved the session on to
\* its second
C32_Witness ==
    /\ manager = "SessionLifecycleManager"
    /\ result = "Max attempts reached"
    /\ \E session \in Sessions :
          /\ session.currentQuestionIndex = 1
          /\ session.status = "in_progress"
          /\ CountAnswers(session.answers, session.questions[1]) = 3


\* The submitAnswer calls a session can still take before it is completed:
\* four for each question from the current one on, less the attempts the
\* current one has used
CallsLeft(session) ==
    IF session.status = "completed" THEN 0
    ELSE 4 * (Len(session.questions) - session.currentQuestionIndex)
             - AttemptsOf(session, CurrentQuestion(session))

\* C33: a session of n questions is completed after at most 4 * n calls of
\* submitAnswer, whatever the scores: it starts with at most 4 * n calls
\* left, only a completed session has none left, every submitAnswer on a
\* session in progress takes at least one away, and no other step of
\* SessionLifecycleManager on the session gives one back.
C33_CompletedWithinFourCallsEach ==
    /\ [](manager = "SessionLifecycleManager" =>
             \A session \in Sessions :
                 /\ CallsLeft(session) \in 0 .. 4 * Len(session.questions)
                 /\ CallsLeft(session) = 0 <=> session.status = "completed")
    /\ [][manager = "SessionLifecycleManager" =>
             \A id \in DOMAIN sessions \cap DOMAIN sessions' :
                 \/ CallsLeft(sessions'[id]) < CallsLeft(sessions[id])
                 \/ /\ CallsLeft(sessions'[id]) = CallsLeft(sessions[id])
                    /\ sessions[id].status = "in_progress" => ~submitAnswer(id)
                 \/ \E generated \in GeneratedQuestions : initSession(id, generated)]_vars

\* A session of two questions completed by its eighth submitAnswer: three
\* failed answers and the call that gives up, for each question
C33_Witness ==
    /\ manager = "SessionLifecycleManager"
    /\ result = "Max attempts reached"
    /\ \E session \in Sessions :
          /\ session.status = "completed"
          /\ Len(session.questions) = 2
          /\ Len(session.answers) = 6


\* C34: onSessionCompleted fires once for a session: no call of
\* SessionLifecycleManager that finds the session completed fires it again,
\* whether forceNextQuestion, submitAnswer or the return of an evaluation
\* that was under way when the session was completed.
C34_CompletedFiresOnce ==
    [][\A id \in DOMAIN sessions :
          ( /\ manager = "SessionLifecycleManager"
            /\ sessions[id].status = "completed"
            /\ \/ forceNextQuestion(id)
               \/ submitAnswer(id)
               \/ \E k \in Slots, score \in EvaluationScores :
                     /\ pending[k].pc = "evaluating"
                     /\ pending[k].sessionId = id
                     /\ submitAnswerResume(k, score) )
          => \A i \in 1 .. Len(callbacks') : callbacks'[i] # "onSessionCompleted"]_vars


\* C35: submitAnswer for an id that has no session, or for a session that is
\* not in progress, returns null and does nothing else: no answer, no
\* attempt counted, no callback, no evaluation started.
C35_NothingForInactive ==
    [][\A id \in OneId :
          ( /\ ~Has(id) \/ sessions[id].status # "in_progress"
            /\ submitAnswer(id) )
          => /\ result' = "null"
             /\ sessions' = sessions
             /\ callbacks' = <<>>
             /\ pending' = pending]_vars

\* A completed session that holds answers, as a refused call leaves it
C35_Witness ==
    /\ manager = "SessionLifecycleManager"
    /\ result = "null"
    /\ callbacks = <<>>
    /\ \E id \in OneId :
          /\ Has(id)
          /\ sessions[id].status = "completed"
          /\ Len(sessions[id].answers) > 0
          /\ ENABLED submitAnswer(id)


\* The questions of the session that have an answer
AnsweredQuestions(session) ==
    {session.questions[index] : index \in 1 .. Len(session.questions)}
        \cap {session.answers[i].questionId : i \in 1 .. Len(session.answers)}

\* C36: in a report questionsAnswered is the number of questions of the
\* session that have an answer, and so is never more than totalQuestions,
\* also when a question was answered more than once.
C36_AnsweredCountsQuestions ==
    report # NoReport =>
        /\ report.questionsAnswered <= report.totalQuestions
        /\ \A session \in Sessions :
              report.questionsAnswered = Cardinality(AnsweredQuestions(session))


\* C37: after a startListening that rejected the service is not listening
\* and no result reaches a registered result handler, until startListening
\* is called again.
C37_RejectedStartLeavesIdle ==
    (manager = "STTService" /\ stt.started = "rejected") =>
        /\ ~STTIsListening(stt)
        /\ ~stt.delivered


\* C38: once a session has started currentQuestionIndex is a position of
\* questions, and no Submit or Skip moves it by more than one, also when
\* Skip is clicked while a submit waits for its response.
C38_FrontEndIndexInRange ==
    /\ []((manager = "App" /\ app.state.sessionId # "null") =>
             app.state.currentQuestionIndex \in 0 .. Len(app.state.questions) - 1)
    /\ [][(manager = "App" /\ app.state.sessionId # "null") =>
             app'.state.currentQuestionIndex - app.state.currentQuestionIndex \in {0, 1}]_vars

====
